---- MODULE Spec2Model ----
(***************************************************************************)
(* The roster parser of parse_childcare_roster.py as a state machine: the  *)
(* line classifier and block segmenter of extract_providers_from_pdf, the  *)
(* field extractors and parse_provider_block.                              *)
(*                                                                         *)
(* Text is modelled character by character: a string is a sequence of      *)
(* one-character strings, and every regular expression of the source is    *)
(* an operator that matches the way Python's re module matches it.  The    *)
(* alphabet is ASCII; download_date, which the parser never inspects, is   *)
(* an opaque string.                                                       *)
(***************************************************************************)
EXTENDS Naturals, Sequences, FiniteSets, TLC

(***************************************************************************)
(* Characters and the classes \d, \w, \s, [A-Z], [A-Za-z] of re.           *)
(***************************************************************************)
UpperSeq ==
    <<"A","B","C","D","E","F","G","H","I","J","K","L","M","N","O","P","Q","R","S","T","U","V",
      "W","X","Y","Z">>
LowerSeq ==
    <<"a","b","c","d","e","f","g","h","i","j","k","l","m","n","o","p","q","r","s","t","u","v",
      "w","x","y","z">>
Range(f) == {f[k] : k \in DOMAIN f}
Digit == {"0","1","2","3","4","5","6","7","8","9"}
Upper == Range(UpperSeq)
Lower == Range(LowerSeq)
Alpha == Upper \cup Lower
WordChar == Alpha \cup Digit \cup {"_"}
Space == {" ", "\t"}
YN == {"Y", "N"}

\* str.lower() of one character (what re.IGNORECASE compares).
LowerChar(c) ==
    IF c \in Upper THEN LowerSeq[CHOOSE k \in DOMAIN UpperSeq : UpperSeq[k] = c] ELSE c

Min(S) == CHOOSE m \in S : \A n \in S : m <= n

\* s[a:b] of Python with 1-based inclusive bounds; empty when a > b.
Slice(s, a, b) == IF a > b THEN <<>> ELSE SubSeq(s, a, b)

\* The literal lit is at index k of s (case-sensitive).
LitAt(s, k, lit) ==
    /\ k >= 1
    /\ k + Len(lit) - 1 <= Len(s)
    /\ \A j \in 1..Len(lit) : s[k + j - 1] = lit[j]

\* The literal lit is at index k of s under re.IGNORECASE.
LitAtCI(s, k, lit) ==
    /\ k >= 1
    /\ k + Len(lit) - 1 <= Len(s)
    /\ \A j \in 1..Len(lit) : LowerChar(s[k + j - 1]) = LowerChar(lit[j])

\* `lit in s`.
Contains(s, lit) == \E k \in 1..Len(s) : LitAt(s, k, lit)

\* s.find(lit) + 1 from index from on: the first index of lit, 0 when absent.
FindFrom(s, lit, from) ==
    LET hits == {k \in from..Len(s) : LitAt(s, k, lit)}
    IN  IF hits = {} THEN 0 ELSE Min(hits)

\* A greedy class run: the first index >= k of s whose character is not in
\* class C (Len(s) + 1 when the run reaches the end).
RunEnd(s, k, C) ==
    CHOOSE e \in k..(Len(s) + 1) :
        /\ \A j \in k..(e - 1) : s[j] \in C
        /\ e = Len(s) + 1 \/ s[e] \notin C

\* The index where the run of class C that ends just before k begins.
RunStart(s, k, C) ==
    CHOOSE b \in 1..k :
        /\ \A j \in b..(k - 1) : s[j] \in C
        /\ b = 1 \/ s[b - 1] \notin C

\* \b between index k - 1 and index k of s.
WordBoundary(s, k) ==
    LET before == k >= 2 /\ k - 1 <= Len(s) /\ s[k - 1] \in WordChar
        after  == k >= 1 /\ k <= Len(s) /\ s[k] \in WordChar
    IN  before # after

\* str.strip().
Strip(s) ==
    LET keep == {k \in 1..Len(s) : s[k] \notin Space}
    IN  IF keep = {} THEN <<>>
        ELSE Slice(s, Min(keep), CHOOSE m \in keep : \A n \in keep : n <= m)

\* ' '.join / concatenation of a sequence of strings with a separator.
RECURSIVE Join(_, _)
Join(parts, sep) ==
    IF parts = <<>> THEN <<>>
    ELSE IF Len(parts) = 1 THEN parts[1]
    ELSE parts[1] \o sep \o Join(Tail(parts), sep)

(***************************************************************************)
(* Literals of the source.                                                 *)
(***************************************************************************)
\* FACILITY_TYPES, in the order of the list.
FACILITY_TYPES ==
    << <<"F","a","m","i","l","y"," ","C","h","i","l","d"," ","C","a","r","e"," ","H","o","m","e",
         " ","I","I">>,
       <<"F","a","m","i","l","y"," ","C","h","i","l","d"," ","C","a","r","e"," ","H","o","m","e",
         " ","I">>,
       <<"C","h","i","l","d"," ","C","a","r","e"," ","C","e","n","t","e","r">>,
       <<"S","c","h","o","o","l","-","A","g","e","-","O","n","l","y"," ","C","h","i","l","d"," ",
         "C","a","r","e"," ","C","e","n","t","e","r">>,
       <<"P","r","e","s","c","h","o","o","l">> >>

\* The alternatives FII?, CCC, PRE, SAOC of the license pattern, in the order
\* the regular expression tries them (I? is greedy: FII before FI).
LicensePrefixes ==
    << <<"F","I","I">>, <<"F","I">>, <<"C","C","C">>, <<"P","R","E">>, <<"S","A","O","C">> >>

\* The header markers of the skip list.
SkipMarkers ==
    << <<"C","H","I","L","D"," ","C","A","R","E"," ","L","I","C","E","N","S","I","N","G"," ","R",
         "O","S","T","E","R">>,
       <<"D","a","t","e"," ","o","f"," ","P","r","i","n","t","i","n","g",":">>,
       <<"Z","I","P"," ","C","O","D","E">>,
       <<"P","R","O","V","I","D","E","R"," ","N","A","M","E">>,
       <<"O","W","N","E","R"," ","N","A","M","E">>,
       <<"P","H","O","N","E"," ","N","U","M","B","E","R">> >>

TotalPrefix ==
    <<"T","o","t","a","l"," ","N","u","m","b","e","r"," ","i","n"," ","Z","i","p"," ","C","o",
      "d","e",":">>
CapacityLit == <<"C","a","p","a","c","i","t","y",":">>
DaysLit == <<"D","a","y","s"," ","o","f"," ","W","e","e","k"," ","O","p","e","n",":">>
AgesLit == <<"A","g","e","s",":">>
HoursLit == <<"H","o","u","r","s",":">>
ToLit == <<"T","o">>
NELit == <<"N","E">>
NebraskaLit == <<"N","E","B","R","A","S","K","A">>
OwnedByLit == <<"o","w","n","e","d"," ","b","y">>
OwnedByUpperLit == <<"O","W","N","E","D"," ","B","Y">>
OwnedLit == <<"o","w","n","e","d">>
ObLit == <<"o","b">>
CurrentlyLit ==
    <<"C","u","r","r","e","n","t","l","y"," ","A","c","c","e","p","t","s"," ","S","u","b","s",
      "i","d","y","?">>
WillingLit ==
    <<"W","i","l","l","i","n","g"," ","T","o"," ","A","c","c","e","p","t"," ","S","u","b","s",
      "i","d","y","?">>
DoesNotLit ==
    <<"D","o","e","s"," ","N","o","t"," ","A","c","c","e","p","t"," ","S","u","b","s","i","d",
      "y","?">>
StepUpLit == <<"S","t","e","p"," ","U","p"," ","T","o"," ","Q","u","a","l","i","t","y",":">>
AccreditedLit == <<"A","c","c","r","e","d","i","t","e","d","?">>
StateNE == <<"N","E">>

(***************************************************************************)
(* The field extractors.  The empty string '' is the empty sequence.       *)
(***************************************************************************)
\* (FII?\d+|CCC\d+|PRE\d+|SAOC\d+)\b matched at index k: the index after the
\* match, 0 when it does not match there.  \d+ is greedy and \b forbids
\* giving a digit back, so the digit run is taken whole.
LicenseEndAt(s, k) ==
    LET fits == {p \in DOMAIN LicensePrefixes :
                    /\ LitAt(s, k, LicensePrefixes[p])
                    /\ LET d == k + Len(LicensePrefixes[p])
                           e == RunEnd(s, d, Digit)
                       IN  e > d /\ WordBoundary(s, e)}
    IN  IF fits = {} THEN 0
        ELSE RunEnd(s, k + Len(LicensePrefixes[Min(fits)]), Digit)

\* re.search(r'\b(FII?\d+|CCC\d+|PRE\d+|SAOC\d+)\b', s): <<start, end>> of the
\* leftmost match (end exclusive), <<0, 0>> when there is none.
LicenseSearch(s) ==
    LET hits == {k \in 1..Len(s) : WordBoundary(s, k) /\ LicenseEndAt(s, k) # 0}
    IN  IF hits = {} THEN <<0, 0>> ELSE <<Min(hits), LicenseEndAt(s, Min(hits))>>

extract_license_number(text) ==
    LET m == LicenseSearch(text)
    IN  IF m[1] = 0 THEN <<>> ELSE Slice(text, m[1], m[2] - 1)

\* re.search(lit + r'\s*(C+)', s).group(1), '' without a match: the first
\* occurrence of lit that is followed, after optional whitespace, by a
\* character of class C; the greedy run of C from there.
SearchRunAfter(s, lit, C) ==
    LET hits == {k \in 1..Len(s) :
                    /\ LitAt(s, k, lit)
                    /\ LET a == RunEnd(s, k + Len(lit), Space)
                       IN  a <= Len(s) /\ s[a] \in C}
    IN  IF hits = {} THEN <<>>
        ELSE LET a == RunEnd(s, Min(hits) + Len(lit), Space)
             IN  Slice(s, a, RunEnd(s, a, C) - 1)

extract_capacity(text) == SearchRunAfter(text, CapacityLit, Digit)

\* The capital letters that end the text, with or without 'Days of Week Open:'.
ExtractDaysBare(text) == Slice(text, RunStart(text, Len(text) + 1, Upper), Len(text))

extract_days(text) == SearchRunAfter(text, DaysLit, Upper)

\* re.search(r'Ages:\s*(.+?)(?:\s*$)', text): the lazy group runs to the last
\* character that is not whitespace; a line that ends in 'Ages:' has no match.
extract_ages(text) ==
    LET k == FindFrom(text, AgesLit, 1)
    IN  IF k # 0 /\ k + Len(AgesLit) <= Len(text)
        THEN Strip(Slice(text, k + Len(AgesLit), Len(text)))
        ELSE <<>>

\* n digits at index k of s.
DigitsAt(s, k, n) == k >= 1 /\ k + n - 1 <= Len(s) /\ \A j \in k..(k + n - 1) : s[j] \in Digit

\* Hours:\s*(\d{4})\s*To\s*(\d{4}) with 'Hours:' at index k: the indices of
\* the two digit groups, <<0, 0>> when it does not match there.
HoursAt(s, k) ==
    IF ~LitAt(s, k, HoursLit) THEN <<0, 0>>
    ELSE LET a == RunEnd(s, k + Len(HoursLit), Space)
         IN  IF ~DigitsAt(s, a, 4) THEN <<0, 0>>
             ELSE LET b == RunEnd(s, a + 4, Space)
                  IN  IF ~LitAt(s, b, ToLit) THEN <<0, 0>>
                      ELSE LET c == RunEnd(s, b + Len(ToLit), Space)
                           IN  IF DigitsAt(s, c, 4) THEN <<a, c>> ELSE <<0, 0>>

extract_hours(text) ==
    LET hits == {k \in 1..Len(text) : HoursAt(text, k)[1] # 0}
    IN  IF hits = {} THEN <<>>
        ELSE LET m == HoursAt(text, Min(hits))
             IN  Slice(text, m[1], m[1] + 3) \o <<" ","T","o"," ">> \o Slice(text, m[2], m[2] + 3)

\* The matched text itself, not rebuilt.
ExtractPhoneAsMatched(text) ==
    IF ~(LitAt(text, 1, <<"(">>) /\ DigitsAt(text, 2, 3) /\ LitAt(text, 5, <<")">>)) THEN <<>>
    ELSE LET a == RunEnd(text, 6, Space)
         IN  IF ~DigitsAt(text, a, 3) THEN <<>>
             ELSE LET h == IF LitAt(text, a + 3, <<"-">>) THEN a + 4 ELSE a + 3
                  IN  IF ~DigitsAt(text, h, 4) THEN <<>> ELSE Slice(text, 1, h + 3)

\* re.match(r'^\((\d{3})\)\s*(\d{3})-?(\d{4})', text), rebuilt as
\* '(ddd) ddd-dddd'.
extract_phone(text) ==
    IF ~(LitAt(text, 1, <<"(">>) /\ DigitsAt(text, 2, 3) /\ LitAt(text, 5, <<")">>)) THEN <<>>
    ELSE LET a == RunEnd(text, 6, Space)
         IN  IF ~DigitsAt(text, a, 3) THEN <<>>
             ELSE LET h == IF LitAt(text, a + 3, <<"-">>) THEN a + 4 ELSE a + 3
                  IN  IF ~DigitsAt(text, h, 4) THEN <<>>
                      ELSE <<"(">> \o Slice(text, 2, 4) \o <<")", " ">> \o Slice(text, a, a + 2)
                           \o <<"-">> \o Slice(text, h, h + 3)

\* \d{2}/\d{2}/\d{4} at index k.
DateAt(s, k) ==
    /\ DigitsAt(s, k, 2) /\ LitAt(s, k + 2, <<"/">>)
    /\ DigitsAt(s, k + 3, 2) /\ LitAt(s, k + 5, <<"/">>)
    /\ DigitsAt(s, k + 6, 4)

\* re.search(r'\b(\d{2}/\d{2}/\d{4})\b', text).
extract_effective_date(text) ==
    LET hits == {k \in 1..Len(text) :
                    WordBoundary(text, k) /\ DateAt(text, k) /\ WordBoundary(text, k + 10)}
    IN  IF hits = {} THEN <<>> ELSE Slice(text, Min(hits), Min(hits) + 9)

\* re.sub(r'\bNEBRASKA\b', '', s, flags=re.IGNORECASE): every whole-word
\* occurrence removed, left to right.
RECURSIVE RemoveNebraska(_)
RemoveNebraska(s) ==
    LET hits == {k \in 1..Len(s) :
                    /\ LitAtCI(s, k, NebraskaLit)
                    /\ WordBoundary(s, k) /\ WordBoundary(s, k + Len(NebraskaLit))}
    IN  IF hits = {} THEN s
        ELSE Slice(s, 1, Min(hits) - 1)
             \o RemoveNebraska(Slice(s, Min(hits) + Len(NebraskaLit), Len(s)))

CityChar == Alpha \cup Space \cup {"."}

\* \b([A-Za-z][A-Za-z\s\.]{0,30}?)\s+NE\s+(\d{5})\b with the group at
\* k..k+n: whether the rest of the pattern matches after it.
CityMatchAt(s, k, n) ==
    /\ WordBoundary(s, k)
    /\ k <= Len(s) /\ s[k] \in Alpha
    /\ k + n <= Len(s)
    /\ \A j \in (k + 1)..(k + n) : s[j] \in CityChar
    /\ LET p == k + n + 1
       IN  /\ p <= Len(s) /\ s[p] \in Space
           /\ LET q == RunEnd(s, p, Space)
              IN  /\ LitAt(s, q, NELit)
                  /\ LET r == RunEnd(s, q + Len(NELit), Space)
                     IN  /\ r > q + Len(NELit)
                         /\ DigitsAt(s, r, 5)
                         /\ WordBoundary(s, r + 5)

\* extract_city_state_zip(text)[0]: the city of the leftmost match, its lazy
\* group as short as the rest of the pattern allows.
extract_city(text) ==
    LET hits == {k \in 1..Len(text) : \E n \in 0..30 : CityMatchAt(text, k, n)}
    IN  IF hits = {} THEN <<>>
        ELSE LET k == Min(hits)
                 n == Min({m \in 0..30 : CityMatchAt(text, k, m)})
             IN  Strip(RemoveNebraska(Strip(Slice(text, k, k + n))))

\* The facility types of FACILITY_TYPES that text contains, by list index.
FacilityHits(text) == {f \in DOMAIN FACILITY_TYPES : Contains(text, FACILITY_TYPES[f])}

extract_facility_type(text) ==
    IF FacilityHits(text) = {} THEN <<>> ELSE FACILITY_TYPES[Min(FacilityHits(text))]

\* re.search(prefix + r'\s*([YN])?', line): the first occurrence of the prefix
\* always matches, with or without the letter.
extract_yn_value(line, prefix) ==
    LET k == FindFrom(line, prefix, 1)
    IN  IF k = 0 THEN <<>>
        ELSE LET a == RunEnd(line, k + Len(prefix), Space)
             IN  IF a <= Len(line) /\ line[a] \in YN THEN <<line[a]>> ELSE <<>>

extract_step_up_quality(line) ==
    LET k == FindFrom(line, StepUpLit, 1)
    IN  IF k = 0 THEN <<>>
        ELSE LET a == RunEnd(line, k + Len(StepUpLit), Space)
             IN  Slice(line, a, RunEnd(line, a, Digit) - 1)

\* An extract_accredited that reads a question without an answer as 'N'.
ExtractAccreditedAssumed(line) ==
    LET k == FindFrom(line, AccreditedLit, 1)
    IN  IF k = 0 THEN <<>>
        ELSE LET a == RunEnd(line, k + Len(AccreditedLit), Space)
             IN  IF a <= Len(line) /\ line[a] \in YN THEN <<line[a]>> ELSE <<"N">>

extract_accredited(line) ==
    LET k == FindFrom(line, AccreditedLit, 1)
    IN  IF k = 0 THEN <<>>
        ELSE LET a == RunEnd(line, k + Len(AccreditedLit), Space)
             IN  IF a <= Len(line) /\ line[a] \in YN THEN <<line[a]>> ELSE <<>>

(***************************************************************************)
(* clean_provider_name and parse_provider_block.                           *)
(***************************************************************************)
\* re.sub(r'\s+' + lit + r'\s*$', '', name): lit at the end of name (before
\* trailing whitespace only) and after at least one whitespace character is
\* cut off together with the whitespace before it.  ci is re.IGNORECASE.
SubTrailing(name, lit, ci) ==
    LET t  == RunStart(name, Len(name) + 1, Space)
        st == t - Len(lit)
    IN  IF /\ t > Len(lit) + 1
           /\ IF ci THEN LitAtCI(name, st, lit) ELSE LitAt(name, st, lit)
           /\ name[st - 1] \in Space
        THEN Slice(name, 1, RunStart(name, st, Space) - 1)
        ELSE name

clean_provider_name(name) ==
    LET n1 == SubTrailing(name, OwnedByLit, TRUE)
        n2 == SubTrailing(n1, OwnedByUpperLit, FALSE)
        n3 == SubTrailing(n2, OwnedLit, TRUE)
        n4 == SubTrailing(n3, ObLit, TRUE)
    IN  Strip(n4)

\* The same search without re.IGNORECASE.
OwnedMatchCaseSensitive(name_part) ==
    LET hits == {q \in 3..Len(name_part) :
                    /\ LitAt(name_part, q, OwnedByLit)
                    /\ name_part[q - 1] \in Space
                    /\ q + Len(OwnedByLit) <= Len(name_part)
                    /\ name_part[q + Len(OwnedByLit)] \in Space}
    IN  IF hits = {} THEN <<>>
        ELSE LET b == RunStart(name_part, Min(hits), Space)
             IN  Slice(name_part, 1, IF b >= 2 THEN b - 1 ELSE 1)

\* re.search(r'^(.+?)\s+owned by\s+', name_part, re.IGNORECASE).group(1), ''
\* without a match: the lazy group ends before the whitespace run in front of
\* the first 'owned by' that has whitespace on both sides.
OwnedMatch(name_part) ==
    LET hits == {q \in 3..Len(name_part) :
                    /\ LitAtCI(name_part, q, OwnedByLit)
                    /\ name_part[q - 1] \in Space
                    /\ q + Len(OwnedByLit) <= Len(name_part)
                    /\ name_part[q + Len(OwnedByLit)] \in Space}
    IN  IF hits = {} THEN <<>>
        ELSE LET b == RunStart(name_part, Min(hits), Space)
             IN  Slice(name_part, 1, IF b >= 2 THEN b - 1 ELSE 1)

\* re.match(r'^(.+?)\s+' + eff_date, line).group(1).strip(), '' without a
\* match: the text before the whitespace run in front of the first occurrence
\* of the date string that follows whitespace.
OwnerMatch(line, eff_date) ==
    LET hits == {q \in 3..Len(line) : LitAt(line, q, eff_date) /\ line[q - 1] \in Space}
    IN  IF hits = {} THEN <<>>
        ELSE LET b == RunStart(line, Min(hits), Space)
             IN  Strip(Slice(line, 1, IF b >= 2 THEN b - 1 ELSE 1))

\* line1.split(license): parts[0] and parts[1].  The split is on the license
\* string as a substring, wherever it first occurs.
SplitBefore(line1, lic) == Slice(line1, 1, FindFrom(line1, lic, 1) - 1)

SplitAfter(line1, lic) ==
    LET a == FindFrom(line1, lic, 1) + Len(lic)
        n == FindFrom(line1, lic, a)
    IN  Slice(line1, a, IF n = 0 THEN Len(line1) ELSE n - 1)

\* after_license[:cap_match.start()].strip() for re.search(r'\s*Capacity:',
\* after_license), '' without a match.
AddressOf(after_license) ==
    LET c == FindFrom(after_license, CapacityLit, 1)
    IN  IF c = 0 THEN <<>>
        ELSE Strip(Slice(after_license, 1, RunStart(after_license, c, Space) - 1))

\* The first non-empty value of extractor F over the lines, '' when none:
\* the loops `for line in lines: if not provider[field]: ...`.
RECURSIVE FirstValue(_, _)
FirstValue(F(_), lines) ==
    IF lines = <<>> THEN <<>>
    ELSE IF F(Head(lines)) # <<>> THEN F(Head(lines))
    ELSE FirstValue(F, Tail(lines))

\* The last line on which extract_effective_date finds a date.
LastDateLine(lines) ==
    LET hits == {i \in DOMAIN lines : extract_effective_date(lines[i]) # <<>>}
    IN  IF hits = {} THEN <<>> ELSE lines[CHOOSE m \in hits : \A h \in hits : h <= m]

\* The first line on which extract_effective_date finds a date, <<>> (no
\* line) when none.
RECURSIVE FirstDateLine(_)
FirstDateLine(lines) ==
    IF lines = <<>> THEN <<>>
    ELSE IF extract_effective_date(Head(lines)) # <<>> THEN Head(lines)
    ELSE FirstDateLine(Tail(lines))

\* A flag of the last loop: each line that contains the question and finds the
\* field still empty sets it to what the extractor yields on that line.
RECURSIVE FlagValue(_, _, _)
FlagValue(F(_), question, lines) ==
    IF lines = <<>> THEN <<>>
    ELSE IF Contains(Head(lines), question) /\ F(Head(lines)) # <<>> THEN F(Head(lines))
    ELSE FlagValue(F, question, Tail(lines))

ExtractCurrently(line) == extract_yn_value(line, CurrentlyLit)
ExtractWilling(line) == extract_yn_value(line, WillingLit)
ExtractDoesNot(line) == extract_yn_value(line, DoesNotLit)

\* A dictionary whose State starts empty.
EmptyProviderNoState(current_zip, current_county, download_date) ==
    [Download_Date |-> download_date,
     Zip_Code |-> current_zip,
     County |-> current_county,
     Provider_Name |-> <<>>,
     License_Number |-> <<>>,
     License_Type |-> <<>>,
     Owner_Name |-> <<>>,
     Effective_Date |-> <<>>,
     Address |-> <<>>,
     City |-> <<>>,
     State |-> <<>>,
     Phone |-> <<>>,
     Capacity |-> <<>>,
     Ages |-> <<>>,
     Hours |-> <<>>,
     Days_Open |-> <<>>,
     Currently_Accepts_Subsidy |-> <<>>,
     Willing_To_Accept_Subsidy |-> <<>>,
     Does_Not_Accept_Subsidy |-> <<>>,
     Step_Up_Quality |-> <<>>,
     Accredited |-> <<>>]

EmptyProvider(current_zip, current_county, download_date) ==
    [Download_Date |-> download_date,
     Zip_Code |-> current_zip,
     County |-> current_county,
     Provider_Name |-> <<>>,
     License_Number |-> <<>>,
     License_Type |-> <<>>,
     Owner_Name |-> <<>>,
     Effective_Date |-> <<>>,
     Address |-> <<>>,
     City |-> <<>>,
     State |-> StateNE,
     Phone |-> <<>>,
     Capacity |-> <<>>,
     Ages |-> <<>>,
     Hours |-> <<>>,
     Days_Open |-> <<>>,
     Currently_Accepts_Subsidy |-> <<>>,
     Willing_To_Accept_Subsidy |-> <<>>,
     Does_Not_Accept_Subsidy |-> <<>>,
     Step_Up_Quality |-> <<>>,
     Accredited |-> <<>>]

\* Provider_Name from line 1 and its license number.
ProviderNameOf(line1, lic) ==
    LET name_part == Strip(SplitBefore(line1, lic))
    IN  IF OwnedMatch(name_part) # <<>>
        THEN clean_provider_name(OwnedMatch(name_part))
        ELSE clean_provider_name(name_part)

\* Every line after the first, joined with spaces.
LinesAfterFirst(lines) == IF Len(lines) > 1 THEN Join(Tail(lines), <<" ">>) ELSE <<>>

\* lines[1] if len(lines) > 1 else ''.
Line2(lines) == IF Len(lines) > 1 THEN lines[2] ELSE <<>>

parse_provider_block(lines, current_zip, current_county, download_date) ==
    IF lines = <<>> THEN EmptyProvider(current_zip, current_county, download_date)
    ELSE
    LET line1 == lines[1]
        lic   == extract_license_number(line1)
        line2 == Line2(lines)
        dline == FirstDateLine(lines)
        eff   == extract_effective_date(dline)
    IN  [EmptyProvider(current_zip, current_county, download_date) EXCEPT
            !.License_Number = lic,
            !.Capacity = extract_capacity(line1),
            !.Days_Open = extract_days(line1),
            !.Provider_Name = IF lic # <<>> THEN ProviderNameOf(line1, lic) ELSE <<>>,
            !.Address = IF lic # <<>> THEN AddressOf(SplitAfter(line1, lic)) ELSE <<>>,
            !.License_Type = extract_facility_type(line2),
            !.Ages = extract_ages(line2),
            !.City = FirstValue(extract_city, lines),
            !.Hours = FirstValue(extract_hours, lines),
            !.Effective_Date = eff,
            !.Owner_Name = IF eff # <<>> THEN OwnerMatch(dline, eff) ELSE <<>>,
            !.Phone = FirstValue(extract_phone, lines),
            !.Currently_Accepts_Subsidy = FlagValue(ExtractCurrently, CurrentlyLit, lines),
            !.Willing_To_Accept_Subsidy = FlagValue(ExtractWilling, WillingLit, lines),
            !.Does_Not_Accept_Subsidy = FlagValue(ExtractDoesNot, DoesNotLit, lines),
            !.Step_Up_Quality = FlagValue(extract_step_up_quality, StepUpLit, lines),
            !.Accredited = FlagValue(extract_accredited, AccreditedLit, lines)]

(***************************************************************************)
(* The line classifier.                                                    *)
(***************************************************************************)
\* any(skip in line for skip in [...]).
IsSkipLine(line) == \E m \in DOMAIN SkipMarkers : Contains(line, SkipMarkers[m])

\* re.match(r'^(\d{5})\s+([A-Za-z]+)\s*$', line): the index after the county
\* token, 0 when the line is no ZIP header.
ZipHeaderEnd(line) ==
    IF ~DigitsAt(line, 1, 5) THEN 0
    ELSE LET a == RunEnd(line, 6, Space)
             b == RunEnd(line, a, Alpha)
         IN  IF a > 6 /\ b > a /\ RunEnd(line, b, Space) = Len(line) + 1 THEN b ELSE 0

is_zip_header(line) == ZipHeaderEnd(line) # 0

\* zip_match.group(1) and zip_match.group(2).
ZipGroup(line) == Slice(line, 1, 5)
CountyGroup(line) == Slice(line, RunEnd(line, 6, Space), ZipHeaderEnd(line) - 1)

\* line.startswith('Total Number in Zip Code:').
IsTotalLine(line) == LitAt(line, 1, TotalPrefix)

is_provider_start_line(line) ==
    LET has_license  == LicenseSearch(line)[1] # 0
        has_capacity == Contains(line, CapacityLit)
    IN  has_license /\ has_capacity

(***************************************************************************)
(* The documents: what pdfplumber hands to extract_providers_from_pdf.     *)
(* A document is a sequence of pages, a page the sequence of its stripped, *)
(* non-empty lines.  The pages after the first are laid out from symbols:  *)
(* a page break, one line of the vocabulary, or a run of MaxBlockLines     *)
(* copies of the continuation line (a record longer than the cap).         *)
(***************************************************************************)
\* '68002 Washington'
L_ZipA == <<"6","8","0","0","2"," ","W","a","s","h","i","n","g","t","o","n">>
\* '68102 Douglas'
L_ZipB == <<"6","8","1","0","2"," ","D","o","u","g","l","a","s">>
\* 'Sunny Days CCC9578 123 Main St Capacity: 10 MTWTHF'
L_Sunny ==
    <<"S","u","n","n","y"," ","D","a","y","s"," ","C","C","C","9","5","7","8"," ","1","2","3",
      " ","M","a","i","n"," ","S","t"," ","C","a","p","a","c","i","t","y",":"," ","1","0"," ",
      "M","T","W","T","H","F">>
\* 'OWNER NAME Kids FI12 4 Oak St Capacity: 8'
L_Marked ==
    <<"O","W","N","E","R"," ","N","A","M","E"," ","K","i","d","s"," ","F","I","1","2"," ","4",
      " ","O","a","k"," ","S","t"," ","C","a","p","a","c","i","t","y",":"," ","8">>
\* 'FII7 9 Elm St Capacity: 12'
L_Elm ==
    <<"F","I","I","7"," ","9"," ","E","l","m"," ","S","t"," ","C","a","p","a","c","i","t","y",
      ":"," ","1","2">>
\* 'Total Number in Zip Code: 2'
L_Total ==
    <<"T","o","t","a","l"," ","N","u","m","b","e","r"," ","i","n"," ","Z","i","p"," ","C","o",
      "d","e",":"," ","2">>
\* '(402)5551234 Jane Doe 04/30/2024'
L_Cont ==
    <<"(","4","0","2",")","5","5","5","1","2","3","4"," ","J","a","n","e"," ","D","o","e"," ",
      "0","4","/","3","0","/","2","0","2","4">>
Vocab == {L_ZipA, L_ZipB, L_Sunny, L_Marked, L_Elm, L_Total, L_Cont}

\* The cap of the collection loop: `lines_collected < 10`.
MaxBlockLines == 10

\* Symbols laid out after the first page of a document.
MaxItems == 4

ContRun == [k \in 1..MaxBlockLines |-> L_Cont]
Break == <<>>
Symbols == {<<l>> : l \in Vocab} \cup {ContRun, Break}

\* The pages a sequence of symbols lays out: a break opens a page, any
\* other symbol adds its lines to the page that is open.
RECURSIVE PagesOf(_)
PagesOf(syms) ==
    IF syms = <<>> THEN <<>>
    ELSE LET before == PagesOf(SubSeq(syms, 1, Len(syms) - 1))
             last == syms[Len(syms)]
         IN  IF last = Break THEN Append(before, <<>>)
             ELSE [before EXCEPT ![Len(before)] = @ \o last]

Layouts ==
    {s \in UNION {[1..m -> Symbols] : m \in 0..MaxItems} : s = <<>> \/ s[1] = Break}

\* The first page of a document (title and introduction).
FirstPages == {<<>>, <<L_ZipB, L_Sunny>>}

\* A document with a page without text between a ZIP header and a record.
GapPdf == << <<L_ZipB, L_Sunny>>, <<L_ZipA>>, <<>>, <<L_Elm, L_Cont>> >>

Docs == {<<first>> \o PagesOf(s) : first \in FirstPages, s \in Layouts} \cup {GapPdf}

\* A document that leaves a ZIP context behind.
OtherPdf == << <<>>, <<L_ZipA>> >>

DownloadDates == {"", "2024-05-01"}

(***************************************************************************)
(* extract_providers_from_pdf.                                             *)
(*                                                                         *)
(* A call runs to completion, so it is one action.  The variables hold     *)
(* what the last call was given (pdf, download_date) and what its locals   *)
(* held when it returned (current_zip, current_county, providers).         *)
(* parsed records the calls of parse_provider_block the last call made and *)
(* returned the result of every call so far.                               *)
(***************************************************************************)
VARIABLES download_date, pdf, current_zip, current_county, providers, parsed, returned,
          text, value, applied,
          test_result, calls, csv, exit_status

vars == <<download_date, pdf, current_zip, current_county, providers, parsed, returned,
          text, value, applied, test_result, calls, csv, exit_status>>

\* What the validator and main() of download_and_parse.py hold: the result
\* of the tests, the place in main(), the CSV file and the exit status.
mainVars == <<test_result, calls, csv, exit_status>>

\* The branch of the outer loop's if-chain that a line takes.
Dispatch(line) ==
    IF IsSkipLine(line) THEN "skip"
    ELSE IF is_zip_header(line) THEN "zip"
    ELSE IF IsTotalLine(line) THEN "total"
    ELSE IF is_provider_start_line(line) THEN "start"
    ELSE "other"

\* The function [x \in S |-> F(x)], every value computed once.
RECURSIVE Tabulate(_, _)
Tabulate(F(_), S) ==
    IF S = {} THEN <<>>
    ELSE LET x == CHOOSE y \in S : TRUE
         IN  (x :> F(x)) @@ Tabulate(F, S \ {x})

DispatchOf == Tabulate(Dispatch, Vocab)

\* The breaks of the collection loop.
StopsBlock(next_line) ==
    \/ is_provider_start_line(next_line)
    \/ is_zip_header(next_line)
    \/ LitAt(next_line, 1, TotalPrefix)
    \/ IsSkipLine(next_line)

StopsOf == Tabulate(StopsBlock, Vocab)

\* The collection loop with a cap of nine lines.
CollectingShortOfCap(lines, i, lines_collected) ==
    /\ i <= Len(lines)
    /\ lines_collected < MaxBlockLines - 1
    /\ ~StopsOf[lines[i]]

\* The collection loop with a cap that is off by one.
CollectingPastCap(lines, i, lines_collected) ==
    /\ i <= Len(lines)
    /\ lines_collected <= MaxBlockLines
    /\ ~StopsOf[lines[i]]

\* while i < len(lines) and lines_collected < 10, up to the breaks.
Collecting(lines, i, lines_collected) ==
    /\ i <= Len(lines)
    /\ lines_collected < MaxBlockLines
    /\ ~StopsOf[lines[i]]

\* The collection loop: the index it leaves in i.
RECURSIVE CollectLines(_, _, _)
CollectLines(lines, i, lines_collected) ==
    IF Collecting(lines, i, lines_collected)
    THEN CollectLines(lines, i + 1, lines_collected + 1)
    ELSE i

\* The blocks the vocabulary can form: a record-start line and lines that
\* do not break the collection loop after it.  They run to one line beyond
\* the cap, so that the cap is the loop's to keep.
Blocks ==
    {<<l>> \o c : l \in {v \in Vocab : DispatchOf[v] = "start"},
                  c \in UNION {[1..n -> {v \in Vocab : ~StopsOf[v]}] :
                                  n \in 0..MaxBlockLines}}

\* parse_provider_block of each block, evaluated once.  The parser copies
\* download_date, current_zip and current_county into the record and reads
\* none of them.
ParseAlone(b) == parse_provider_block(b, <<>>, <<>>, "")
ParsedBlockOf == Tabulate(ParseAlone, Blocks)

ParseBlock(provider_lines, zip, county, date) ==
    [ParsedBlockOf[provider_lines] EXCEPT
        !.Zip_Code = zip, !.County = county, !.Download_Date = date]

\* Kept only with a name.
KeepProviderNamed(provider) == provider.Provider_Name # <<>>

\* Kept only with a name and a license number both.
KeepProviderBoth(provider) == provider.Provider_Name # <<>> /\ provider.License_Number # <<>>

\* if provider['Provider_Name'] or provider['License_Number'].
KeepProvider(provider) == provider.Provider_Name # <<>> \/ provider.License_Number # <<>>

\* The while loop over the lines of one page, from index i (1-based).  s
\* carries current_zip, current_county, providers and parsed.
RECURSIVE ScanLines(_, _, _, _, _)
ScanLines(lines, i, s, page_num, date) ==
    IF i > Len(lines) THEN s
    ELSE
    LET line == lines[i]
    IN  CASE DispatchOf[line] = "zip" ->
                ScanLines(lines, i + 1,
                          [s EXCEPT !.current_zip = ZipGroup(line),
                                    !.current_county = CountyGroup(line)],
                          page_num, date)
          [] DispatchOf[line] = "start" ->
                LET after == CollectLines(lines, i + 1, 1)
                    provider_lines == SubSeq(lines, i, after - 1)
                    provider == ParseBlock(provider_lines, s.current_zip,
                                          s.current_county, date)
                    call == [lines |-> provider_lines, page |-> page_num, at |-> i,
                             provider |-> provider]
                IN  ScanLines(lines, after,
                              [s EXCEPT !.providers = IF KeepProvider(provider)
                                                      THEN Append(@, provider) ELSE @,
                                        !.parsed = Append(@, call)],
                              page_num, date)
          [] OTHER -> ScanLines(lines, i + 1, s, page_num, date)

\* The context of the call before, left in place.
LeakedContext == <<current_zip, current_county>>

\* current_zip = '' and current_county = '' at the top of the function.
InitialContext == << <<>>, <<>> >>

\* The page loop with the context set up anew on every page.
RECURSIVE ScanPagesResetting(_, _, _, _)
ScanPagesResetting(doc, page_num, s, date) ==
    IF page_num > Len(doc) THEN s
    ELSE ScanPagesResetting(doc, page_num + 1,
                   IF doc[page_num] = <<>> THEN s
                   ELSE ScanLines(doc[page_num], 1,
                                  [s EXCEPT !.current_zip = <<>>, !.current_county = <<>>],
                                  page_num, date),
                   date)

\* for page_num, page in enumerate(pdf.pages[1:], start=2), with the
\* `if not text: continue` of a page without text.
RECURSIVE ScanPages(_, _, _, _)
ScanPages(doc, page_num, s, date) ==
    IF page_num > Len(doc) THEN s
    ELSE ScanPages(doc, page_num + 1,
                   IF doc[page_num] = <<>> THEN s
                   ELSE ScanLines(doc[page_num], 1, s, page_num, date),
                   date)

\* The loop over pdf.pages, the first page included.
ExtractFromFirstPage(doc, date) ==
    ScanPages(doc, 1,
              [current_zip |-> InitialContext[1], current_county |-> InitialContext[2],
               providers |-> <<>>, parsed |-> <<>>],
              date)

extract_providers_from_pdf(doc, date) ==
    ScanPages(doc, 2,
              [current_zip |-> InitialContext[1], current_county |-> InitialContext[2],
               providers |-> <<>>, parsed |-> <<>>],
              date)

Init ==
    /\ download_date = ""
    /\ pdf = <<>>
    /\ current_zip = <<>>
    /\ current_county = <<>>
    /\ providers = <<>>
    /\ parsed = <<>>
    /\ returned = {}
    /\ text = <<>>
    /\ value = <<>>
    /\ applied = "none"
    /\ test_result = <<>>
    /\ calls = <<>>
    /\ csv = <<>>
    /\ exit_status = <<>>

\* One call of extract_providers_from_pdf(doc, date).
Call(doc, date) ==
    \E s \in {extract_providers_from_pdf(doc, date)} :
        /\ pdf' = doc
        /\ download_date' = date
        /\ current_zip' = s.current_zip
        /\ current_county' = s.current_county
        /\ providers' = s.providers
        /\ parsed' = s.parsed
        /\ returned' = returned \cup
                {[pdf |-> doc, download_date |-> date, providers |-> s.providers]}
        /\ UNCHANGED <<text, value, applied>>
        /\ UNCHANGED mainVars

\* The first document the process parses.
Parse ==
    /\ returned = {}
    /\ \E doc \in Docs, date \in DownloadDates : Call(doc, date)

\* A later call of the same process: a document parsed before, as
\* test_parsing_determinism does, or another document.
ParseAgain ==
    /\ returned # {}
    /\ \E doc \in {r.pdf : r \in returned} \cup {OtherPdf} : Call(doc, download_date)

Next == Parse \/ ParseAgain

Spec == Init /\ [][Next]_vars

(***************************************************************************)
(* The text functions on their own: a text put together from words, and    *)
(* one function applied to it.                                             *)
(***************************************************************************)
\* 'Kids'
W_Kids == <<"K","i","d","s">>

\* Words to a text.
MaxWords == 3

Words == {W_Kids, OwnedLit, <<"b","y">>, ObLit} \cup Range(FACILITY_TYPES)

Texts == {Join(w, <<" ">>) : w \in UNION {[1..n -> Words] : n \in 1..MaxWords}}

InitText ==
    /\ download_date = ""
    /\ pdf = <<>>
    /\ current_zip = <<>>
    /\ current_county = <<>>
    /\ providers = <<>>
    /\ parsed = <<>>
    /\ returned = {}
    /\ text \in Texts
    /\ value = <<>>
    /\ applied = "none"
    /\ test_result = <<>>
    /\ calls = <<>>
    /\ csv = <<>>
    /\ exit_status = <<>>

Apply(function, result) ==
    /\ applied' = function
    /\ value' = result
    /\ UNCHANGED <<download_date, pdf, current_zip, current_county, providers, parsed,
                   returned, text>>
    /\ UNCHANGED mainVars

\* clean_provider_name(text), and clean_provider_name of its result.
CleanName == applied = "none" /\ Apply("clean_provider_name", clean_provider_name(text))

CleanAgain ==
    /\ applied = "clean_provider_name"
    /\ Apply("clean_provider_name twice", clean_provider_name(value))

\* extract_facility_type(text).
FacilityType == applied = "none" /\ Apply("extract_facility_type", extract_facility_type(text))

NextText == CleanName \/ CleanAgain \/ FacilityType

SpecText == InitText /\ [][NextText]_vars

(***************************************************************************)
(* Blocks for parse_provider_block: a first line with a name candidate     *)
(* made of words, or a fixed first line followed by lines that print the   *)
(* subsidy, rating and accreditation questions with and without answers.   *)
(***************************************************************************)
W_Bright == <<"B","r","i","g","h","t"," ","S","t","a","r","t">>
W_Jane == <<"J","a","n","e"," ","D","o","e">>
OwnedByMixedLit == <<"O","w","n","e","d"," ","B","y">>
LineRest == <<" ","C","C","C","1"," ","4"," ","O","a","k"," ","S","t"," ","C","a","p","a","c","i","t","y",":"," ","8">>
L_Bright == W_Bright \o LineRest

MaxNameWords == 4
MaxFlagLines == 2

NameWords == {W_Bright, W_Jane, OwnedByLit, OwnedByMixedLit, OwnedLit, ObLit}

NameCandidates ==
    {Join(w, <<" ">>) : w \in UNION {[1..n -> NameWords] : n \in 1..MaxNameWords}}

Questions == {CurrentlyLit, WillingLit, DoesNotLit, AccreditedLit}

FlagLines ==
    {question \o a : question \in Questions, a \in {<<>>, <<" ","Y">>}}
    \cup {StepUpLit \o r : r \in {<<>>, <<" ","3">>}}
    \cup {CurrentlyLit \o <<" ","Y"," ">> \o WillingLit \o <<" ">> \o DoesNotLit \o <<" ","N">>,
          AccreditedLit \o <<" ">> \o AccreditedLit \o <<" ","Y">>}

\* Lines that carry a city, hours, a date with or without an owner before
\* it, a phone number or the five answers, two or three of each with other values.
L_Omaha == <<"O","m","a","h","a"," ","N","E"," ","6","8","1","0","2">>
L_Lincoln == <<"L","i","n","c","o","l","n"," ","N","E"," ","6","8","5","0","2">>
L_Hours6 == <<"H","o","u","r","s",":"," ","0","6","0","0"," ","T","o"," ","1","8","0","0">>
L_Hours7 == <<"H","o","u","r","s",":"," ","0","7","0","0"," ","T","o"," ","1","7","3","0">>
L_JaneDate == <<"J","a","n","e"," ","D","o","e"," ","0","4","/","3","0","/","2","0","2","4">>
L_JohnDate == <<"J","o","h","n"," ","R","o","e"," ","0","5","/","3","1","/","2","0","2","5">>
L_BareDate == <<"0","6","/","3","0","/","2","0","2","6">>
L_Phone1 == <<"(","4","0","2",")"," ","5","5","5","-","1","2","3","4">>
L_Phone9 == <<"(","4","0","2",")","5","5","5","9","9","9","9">>
L_AnswersN ==
    CurrentlyLit \o <<" ","N"," ">> \o WillingLit \o <<" ","N"," ">>
        \o DoesNotLit \o <<" ","Y"," ">> \o AccreditedLit \o <<" ","N"," ">>
        \o StepUpLit \o <<" ","5">>
L_AnswersY ==
    CurrentlyLit \o <<" ","Y"," ">> \o WillingLit \o <<" ","Y"," ">>
        \o DoesNotLit \o <<" ","N"," ">> \o AccreditedLit \o <<" ","Y"," ">>
        \o StepUpLit \o <<" ","3">>

MaxFieldLines == 2

FieldLines ==
    {L_Omaha, L_Lincoln, L_Hours6, L_Hours7, L_JaneDate, L_JohnDate, L_BareDate,
     L_Phone1, L_Phone9, L_AnswersN, L_AnswersY}

\* Lines that carry a facility type, ages, a capacity and days, or a license
\* number without 'Capacity:'.
L_TypeAges == <<"C","h","i","l","d"," ","C","a","r","e"," ","C","e","n","t","e","r"," ","A","g","e","s",":"," ","6"," ","W","K","S"," ","T","o"," ","1","2"," ","Y","R","S">>
L_Preschool == <<"P","r","e","s","c","h","o","o","l">>
L_Ages3 == <<"A","g","e","s",":"," ","3"," ","Y","R","S"," ","T","o"," ","5"," ","Y","R","S">>
L_CapDays == <<"C","a","p","a","c","i","t","y",":"," ","5"," ","D","a","y","s"," ","o","f"," ","W","e","e","k"," ","O","p","e","n",":"," ","M","T","W","T","H","F">>
L_Annex == <<"P","R","E","9"," ","a","n","n","e","x">>

MaxSecondLines == 2

SecondLines == {L_TypeAges, L_Preschool, L_Ages3, L_CapDays, L_Annex, L_Phone1}

BlockInputs ==
    {<<name \o LineRest>> : name \in NameCandidates}
    \cup {<<L_Bright>> \o more : more \in UNION {[1..n -> FlagLines] : n \in 0..MaxFlagLines}}
    \cup {<<L_Bright>> \o more : more \in UNION {[1..n -> FieldLines] : n \in 0..MaxFieldLines}}
    \cup {<<L_Bright>> \o more :
              more \in UNION {[1..n -> SecondLines] : n \in 0..MaxSecondLines}}

InitBlock ==
    /\ download_date = ""
    /\ pdf = <<>>
    /\ current_zip = <<>>
    /\ current_county = <<>>
    /\ providers = <<>>
    /\ parsed = <<>>
    /\ returned = {}
    /\ text \in BlockInputs
    /\ value = <<>>
    /\ applied = "none"
    /\ test_result = <<>>
    /\ calls = <<>>
    /\ csv = <<>>
    /\ exit_status = <<>>

\* parse_provider_block(text, zip, county, date) under the header '68002
\* Washington' and the date of a run.
ParseProviderBlock ==
    /\ applied = "none"
    /\ \E date \in DownloadDates \ {""} :
           /\ current_zip' = ZipGroup(L_ZipA)
           /\ current_county' = CountyGroup(L_ZipA)
           /\ download_date' = date
           /\ applied' = "parse_provider_block"
           /\ value' = parse_provider_block(text, ZipGroup(L_ZipA), CountyGroup(L_ZipA), date)
    /\ UNCHANGED <<pdf, providers, parsed, returned, text>>
    /\ UNCHANGED mainVars

NextBlock == ParseProviderBlock

SpecBlock == InitBlock /\ [][NextBlock]_vars

(***************************************************************************)
(* test_parse_consistency.py: the patterns, the result object and the      *)
(* three tests.  A record list is the `providers` the tests are given.     *)
(***************************************************************************)
\* ^(FII?\d+|CCC\d+|PRE\d+|SAOC\d+)$
LICENSE_PATTERN(t) ==
    \E p \in DOMAIN LicensePrefixes :
        /\ LitAt(t, 1, LicensePrefixes[p])
        /\ Len(t) > Len(LicensePrefixes[p])
        /\ \A j \in (Len(LicensePrefixes[p]) + 1)..Len(t) : t[j] \in Digit

\* ^\(\d{3}\) \d{3}-\d{4}$
PHONE_PATTERN(t) ==
    /\ Len(t) = 14
    /\ t[1] = "(" /\ t[5] = ")" /\ t[6] = " " /\ t[10] = "-"
    /\ \A j \in {2, 3, 4, 7, 8, 9, 11, 12, 13, 14} : t[j] \in Digit

\* ^\d{2}/\d{2}/\d{4}$
DATE_PATTERN(t) ==
    /\ Len(t) = 10
    /\ t[3] = "/" /\ t[6] = "/"
    /\ \A j \in {1, 2, 4, 5, 7, 8, 9, 10} : t[j] \in Digit

\* ^\d{5}$
ZIP_PATTERN(t) == Len(t) = 5 /\ \A j \in 1..5 : t[j] \in Digit

\* The five strings of VALID_LICENSE_TYPES, which are those of FACILITY_TYPES.
VALID_LICENSE_TYPES == Range(FACILITY_TYPES)

MIN_EXPECTED_PROVIDERS == 100

\* ConsistencyTestResult(): passed, errors, warnings, stats (a dict, here a
\* function from the key to the value).
ConsistencyTestResult == [passed |-> TRUE, errors |-> <<>>, warnings |-> <<>>, stats |-> <<>>]

\* An add_error that leaves passed as it is.
AddErrorOnly(result, message) == [result EXCEPT !.errors = Append(@, message)]

add_error(result, message) ==
    [result EXCEPT !.passed = FALSE, !.errors = Append(@, message)]

add_warning(result, message) == [result EXCEPT !.warnings = Append(@, message)]

\* result.stats[key] = val.
SetStat(result, key, val) == [result EXCEPT !.stats = (key :> val) @@ @]

\* An uncaught ZeroDivisionError in place of a value.
ZeroDivisionError == [raised |-> "ZeroDivisionError"]
Raised(v) == "raised" \in DOMAIN v

\* a / b of two ints, kept as the fraction.
Divide(a, b) == IF b = 0 THEN ZeroDivisionError ELSE [num |-> a, den |-> b]

\* p.get(field), as a truth value.
Has(p, field) == p[field] # <<>>

\* f"{rate:.1%}": the rate in tenths of a percent, rounded half to even.
RateText(rate) ==
    LET q == (1000 * rate.num) \div rate.den
        r == (1000 * rate.num) % rate.den
    IN  IF 2 * r > rate.den \/ (2 * r = rate.den /\ q % 2 = 1) THEN q + 1 ELSE q

\* An error or warning message: its fixed words, the field it is about, the
\* number it prints and the value it quotes.
Message(msg, field, count, quoted) ==
    [msg |-> msg, field |-> field, count |-> count, quoted |-> quoted]

Messages(result) == Range(result.errors) \cup Range(result.warnings)

\* "if missing > 0: pct = (missing / len(providers)) * 100", an error when
\* pct > 5 and a warning otherwise.
ReportMissing(result, missing, n, field) ==
    IF Raised(result) \/ missing = 0 THEN result
    ELSE LET pct == Divide(100 * missing, n)
         IN  IF Raised(pct) THEN pct
             ELSE IF pct.num > 5 * pct.den
                  THEN add_error(result, Message("missing", field, missing, <<>>))
                  ELSE add_warning(result, Message("missing", field, missing, <<>>))

\* "if invalid_phones:", an error whatever their share.
ReportPhonesAsErrors(result, invalid_phones, n) ==
    IF Raised(result) \/ invalid_phones = <<>> THEN result
    ELSE add_error(result, Message("invalid phone formats", "Phone", Len(invalid_phones), <<>>))

\* "if invalid_phones:", an error when pct > 10 and a warning otherwise.
ReportPhones(result, invalid_phones, n) ==
    IF Raised(result) \/ invalid_phones = <<>> THEN result
    ELSE LET pct == Divide(100 * Len(invalid_phones), n)
         IN  IF Raised(pct) THEN pct
             ELSE IF pct.num > 10 * pct.den
                  THEN add_error(result, Message("invalid phone formats", "Phone",
                                                 Len(invalid_phones), <<>>))
                  ELSE add_warning(result, Message("invalid phone formats", "Phone",
                                                   Len(invalid_phones), <<>>))

\* "if invalid: result.add_error(...)".
ReportInvalid(result, invalid, msg, field, quoted) ==
    IF Raised(result) \/ invalid = <<>> THEN result
    ELSE add_error(result, Message(msg, field, Len(invalid), quoted))

\* One "Unknown license type" warning for each record of `unknown`, from j on.
RECURSIVE WarnUnknown(_, _, _)
WarnUnknown(result, unknown, j) ==
    IF j > Len(unknown) THEN result
    ELSE WarnUnknown(add_warning(result, Message("Unknown license type", "License_Type", 1,
                                                  unknown[j].License_Type)),
                     unknown, j + 1)

\* dict(license_types): the number of records of each License_Type present.
LicenseTypeDistribution(provs) ==
    [t \in {provs[j].License_Type : j \in {k \in DOMAIN provs : Has(provs[k], "License_Type")}}
        |-> Cardinality({j \in DOMAIN provs : provs[j].License_Type = t})]

\* A threshold test that also rejects a list of exactly the minimum length,
\* and one with the comparison turned round.
TooFewOrEqual(n) == n <= MIN_EXPECTED_PROVIDERS

TooFewReversed(n) == n > MIN_EXPECTED_PROVIDERS

TooFew(n) == n < MIN_EXPECTED_PROVIDERS

test_data_quality(provs) ==
    LET n == Len(provs)
        counted == SetStat(IF TooFew(n)
                           THEN add_error(ConsistencyTestResult,
                                          Message("Too few providers extracted", "", n, <<>>))
                           ELSE ConsistencyTestResult,
                           "total_providers", n)
        missing_names == Cardinality({j \in DOMAIN provs : ~Has(provs[j], "Provider_Name")})
        missing_license_numbers ==
            Cardinality({j \in DOMAIN provs : ~Has(provs[j], "License_Number")})
        invalid_licenses ==
            SelectSeq(provs, LAMBDA p : Has(p, "License_Number")
                                        /\ ~LICENSE_PATTERN(p.License_Number))
        unknown == SelectSeq(provs, LAMBDA p : Has(p, "License_Type")
                                               /\ p.License_Type \notin VALID_LICENSE_TYPES)
        invalid_phones == SelectSeq(provs, LAMBDA p : Has(p, "Phone") /\ ~PHONE_PATTERN(p.Phone))
        invalid_dates == SelectSeq(provs, LAMBDA p : Has(p, "Effective_Date")
                                                     /\ ~DATE_PATTERN(p.Effective_Date))
        invalid_zips == SelectSeq(provs, LAMBDA p : Has(p, "Zip_Code") /\ ~ZIP_PATTERN(p.Zip_Code))
        looped == WarnUnknown(counted, unknown, 1)
        names == ReportMissing(looped, missing_names, n, "Provider_Name")
        numbers == ReportMissing(names, missing_license_numbers, n, "License_Number")
        licenses == ReportInvalid(numbers, invalid_licenses, "invalid license numbers",
                                  "License_Number",
                                  IF invalid_licenses = <<>> THEN <<>>
                                  ELSE invalid_licenses[1].License_Number)
        phones == ReportPhones(licenses, invalid_phones, n)
        dates == ReportInvalid(phones, invalid_dates, "invalid date formats",
                               "Effective_Date", <<>>)
        zips == ReportInvalid(dates, invalid_zips, "invalid ZIP codes", "Zip_Code", <<>>)
    IN  IF Raised(zips) THEN zips
        ELSE SetStat(SetStat(SetStat(zips, "license_type_distribution",
                                     LicenseTypeDistribution(provs)),
                             "providers_with_phone",
                             Cardinality({j \in DOMAIN provs : Has(provs[j], "Phone")})),
                     "providers_with_address",
                     Cardinality({j \in DOMAIN provs : Has(provs[j], "Address")}))

key_fields == <<"License_Number", "Provider_Name", "Zip_Code", "County", "License_Type",
                "Capacity">>

\* A required rate of 95%.
RequiredRateStrict == [num |-> 19, den |-> 20]

\* required_rate = 0.90, as the fraction it is compared with.
required_rate == [num |-> 9, den |-> 10]

\* The rate computed without the "if providers else 0".
RateUnguarded(provs, field) ==
    Divide(Cardinality({j \in DOMAIN provs : Has(provs[j], field)}), Len(provs))

\* "rate = populated / len(providers) if providers else 0".
Rate(provs, field) ==
    IF provs # <<>>
    THEN Divide(Cardinality({j \in DOMAIN provs : Has(provs[j], field)}), Len(provs))
    ELSE [num |-> 0, den |-> 1]

\* The loop of test_field_completeness over key_fields, from the k-th on.
RECURSIVE CompletenessFrom(_, _, _)
CompletenessFrom(provs, k, result) ==
    IF k > Len(key_fields) THEN result
    ELSE LET field == key_fields[k]
             rate == Rate(provs, field)
         IN  IF Raised(rate) THEN rate
             ELSE LET stated == SetStat(result, field \o "_rate", RateText(rate))
                  IN  CompletenessFrom(provs, k + 1,
                          IF rate.num * required_rate.den < required_rate.num * rate.den
                          THEN add_error(stated, Message("only populated in", field,
                                                         RateText(rate), <<>>))
                          ELSE stated)

test_field_completeness(provs) == CompletenessFrom(provs, 1, ConsistencyTestResult)

\* The "Provider i differs between runs" errors of the first three of the
\* differing positions (i counts from 0 in the message), from the j-th on.
RECURSIVE ReportDiffering(_, _, _)
ReportDiffering(result, differing, j) ==
    IF j > Len(differing) \/ j > 3 THEN result
    ELSE ReportDiffering(add_error(result, Message("differs between runs", "",
                                                   differing[j] - 1, <<>>)),
                         differing, j + 1)

\* The loop over zip(providers1, providers2) and the "more mismatches" error.
CompareRuns(providers1, providers2, result) ==
    LET differing == SelectSeq([i \in 1..Min({Len(providers1), Len(providers2)}) |-> i],
                               LAMBDA i : providers1[i] # providers2[i])
        mismatches == Len(differing)
        reported == ReportDiffering(result, differing, 1)
    IN  IF mismatches > 3
        THEN add_error(reported, Message("more mismatches", "", mismatches - 3, <<>>))
        ELSE reported

\* test_parsing_determinism, given what the two calls of parse_func returned.
test_parsing_determinism(providers1, providers2) ==
    IF Len(providers1) # Len(providers2)
    THEN add_error(ConsistencyTestResult,
                   Message("Provider count differs between runs", "", Len(providers1), <<>>))
    ELSE CompareRuns(providers1, providers2,
                     SetStat(ConsistencyTestResult, "provider_count", Len(providers1)))

\* combined.errors.extend, combined.warnings.extend and combined.stats.update
\* (the keys of `other` replace those of `combined`).
Combine(combined, other) ==
    [combined EXCEPT !.errors = @ \o other.errors,
                     !.warnings = @ \o other.warnings,
                     !.stats = other.stats @@ @]

\* The same, with "if k not in combined.stats: combined.stats[k] = v".
CombineNew(combined, other) ==
    [combined EXCEPT !.errors = @ \o other.errors,
                     !.warnings = @ \o other.warnings,
                     !.stats = @ @@ other.stats]

\* run_all_tests: `runs` is <<>> when parse_func is None, and otherwise what
\* its two calls return.  The caller gets (combined.passed, combined).
run_all_tests(provs, runs) ==
    LET quality_result == test_data_quality(provs)
        completeness_result == test_field_completeness(provs)
    IN  IF Raised(quality_result) THEN quality_result
        ELSE IF Raised(completeness_result) THEN completeness_result
        ELSE LET two == Combine(Combine(ConsistencyTestResult, quality_result),
                                completeness_result)
                 combined == IF runs # <<>>
                             THEN CombineNew(two, test_parsing_determinism(runs[1], runs[2]))
                             ELSE two
             IN  [combined EXCEPT !.passed = (Len(combined.errors) = 0)]

(***************************************************************************)
(* Record lists for the tests: n records of which the last k are of one    *)
(* kind and the others are complete and well formed.                       *)
(***************************************************************************)
GoodProvider ==
    [EmptyProvider(<<"6","8","0","0","2">>, <<"W","a","s","h","i","n","g","t","o","n">>,
                   "2024-05-01")
        EXCEPT !.Provider_Name = <<"S","u","n","n","y"," ","D","a","y","s">>,
               !.License_Number = <<"C","C","C","1","2","3","4">>,
               !.License_Type = FACILITY_TYPES[1],
               !.Capacity = <<"3","0">>,
               !.Address = <<"1","2"," ","M","a","i","n"," ","S","t">>,
               !.Phone = <<"(","4","0","2",")"," ","5","5","5","-","1","2","3","4">>,
               !.Effective_Date = <<"0","4","/","3","0","/","2","0","2","4">>]

Kinds ==
    {EmptyProvider(<<>>, <<>>, "")}
    \cup {[GoodProvider EXCEPT ![key_fields[f]] = <<>>] : f \in DOMAIN key_fields}
    \cup {[GoodProvider EXCEPT !.License_Type = <<"D","a","y"," ","C","a","m","p">>],
          [GoodProvider EXCEPT !.License_Number = <<"1","2","3","4">>],
          [GoodProvider EXCEPT !.Phone = <<"(","4","0","2",")","5","5","5","1","2","3","4">>],
          [GoodProvider EXCEPT !.Effective_Date = <<"4","/","3","0","/","2","4">>],
          [GoodProvider EXCEPT !.Zip_Code = <<"6","8","0","0">>]}

MaxRecords == 101
MaxMissing == 11
MaxMessages == 2

Sizes == {0, 5} \cup ((MIN_EXPECTED_PROVIDERS - 1) .. MaxRecords)

Mix(n, k, kind) == [j \in 1..n |-> IF j <= n - k THEN GoodProvider ELSE kind]

RecordLists == {Mix(n, k, kind) : n \in Sizes, k \in 0..MaxMissing, kind \in Kinds}

\* What a parse_func given to run_all_tests may return on its second call:
\* the same list, a shorter one, one other record, every record other.
SecondRuns(provs) ==
    {provs, [j \in DOMAIN provs |-> EmptyProvider(<<>>, <<>>, "")]}
    \cup IF provs = <<>> THEN {}
         ELSE {Tail(provs), [provs EXCEPT ![1] = EmptyProvider(<<>>, <<>>, "")]}

InitTests ==
    /\ download_date = ""
    /\ pdf = <<>>
    /\ current_zip = <<>>
    /\ current_county = <<>>
    /\ providers \in RecordLists
    /\ parsed = <<>>
    /\ returned = {}
    /\ text = <<>>
    /\ value = <<>>
    /\ applied = "none"
    /\ test_result = <<>>
    /\ calls = <<>>
    /\ csv = <<>>
    /\ exit_status = <<>>

Test(function, outcome) ==
    /\ applied' = function
    /\ test_result' = outcome
    /\ UNCHANGED <<download_date, pdf, current_zip, current_county, providers, parsed,
                   returned, text, value, calls, csv, exit_status>>

TestDataQuality == applied = "none" /\ Test("test_data_quality", test_data_quality(providers))

TestFieldCompleteness ==
    applied = "none" /\ Test("test_field_completeness", test_field_completeness(providers))

RunAllTests ==
    /\ applied = "none"
    /\ \E runs \in {<<>>} \cup {<<providers, q>> : q \in SecondRuns(providers)} :
           Test("run_all_tests", run_all_tests(providers, runs))

\* result.add_error(...) and result.add_warning(...) on a result already made.
AddError ==
    /\ applied # "none"
    /\ ~Raised(test_result)
    /\ Len(test_result.errors) + Len(test_result.warnings) < MaxMessages
    /\ Test(applied, add_error(test_result, Message("added", "", 0, <<>>)))

AddWarning ==
    /\ applied # "none"
    /\ ~Raised(test_result)
    /\ Len(test_result.errors) + Len(test_result.warnings) < MaxMessages
    /\ Test(applied, add_warning(test_result, Message("added", "", 0, <<>>)))

NextTests == TestDataQuality \/ TestFieldCompleteness \/ RunAllTests \/ AddError \/ AddWarning

SpecTests == InitTests /\ [][NextTests]_vars

(***************************************************************************)
(* download_and_parse.py: main.  `calls` is the calls main has made, each  *)
(* with its outcome; exit_status is <<>> while main runs, <<1>> after      *)
(* sys.exit(1) or an uncaught exception and <<0>> after main returned; csv *)
(* is the rows of the file written, <<>> while there is none.              *)
(***************************************************************************)
fieldnames ==
    <<"Download_Date", "Zip_Code", "County", "Provider_Name", "License_Number",
      "License_Type", "Owner_Name", "Effective_Date", "Address", "City", "State",
      "Phone", "Capacity", "Ages", "Hours", "Days_Open",
      "Currently_Accepts_Subsidy", "Willing_To_Accept_Subsidy",
      "Does_Not_Accept_Subsidy", "Step_Up_Quality", "Accredited">>

\* writer.writeheader() and writer.writerows(providers).
write_csv(provs) ==
    <<fieldnames>> \o [j \in DOMAIN provs |-> [f \in DOMAIN fieldnames |-> provs[j][fieldnames[f]]]]

InitMain ==
    /\ download_date = ""
    /\ pdf = <<>>
    /\ current_zip = <<>>
    /\ current_county = <<>>
    /\ providers = <<>>
    /\ parsed = <<>>
    /\ returned = {}
    /\ text = <<>>
    /\ value = <<>>
    /\ applied = "none"
    /\ test_result = <<>>
    /\ calls = <<>>
    /\ csv = <<>>
    /\ exit_status = <<>>

parserVars == <<download_date, pdf, current_zip, current_county, parsed, returned,
                text, value, applied>>

\* "if not download_pdf(PDF_URL, pdf_path): sys.exit(1)": download_pdf returns
\* True, returns False after a requests.RequestException, or lets another
\* exception through.
Download ==
    /\ exit_status = <<>>
    /\ calls = <<>>
    /\ \E outcome \in {"True", "False", "raised"} :
           /\ calls' = <<<<"download_pdf", outcome>>>>
           /\ exit_status' = IF outcome = "True" THEN <<>> ELSE <<1>>
    /\ UNCHANGED <<providers, test_result, csv>>
    /\ UNCHANGED parserVars

\* "providers = extract_providers_from_pdf(pdf_path, download_date=date_str)":
\* the records of the roster downloaded, or an exception of the PDF reader.
ParseRoster ==
    /\ exit_status = <<>>
    /\ Len(calls) = 1
    /\ \/ \E provs \in RecordLists :
              /\ providers' = provs
              /\ calls' = Append(calls, <<"extract_providers_from_pdf", "returned">>)
              /\ exit_status' = exit_status
       \/ /\ providers' = providers
          /\ calls' = Append(calls, <<"extract_providers_from_pdf", "raised">>)
          /\ exit_status' = <<1>>
    /\ UNCHANGED <<test_result, csv>>
    /\ UNCHANGED parserVars

\* "passed, test_result = run_all_tests(pdf_path, providers,
\* parse_func=extract_providers_from_pdf, download_date=date_str)": the parser
\* returns the same records on each call for the same file.
RunTestsOfMain ==
    /\ exit_status = <<>>
    /\ Len(calls) = 2
    /\ \E outcome \in {run_all_tests(providers, <<providers, providers>>)} :
           /\ test_result' = outcome
           /\ calls' = Append(calls, <<"run_all_tests",
                                       IF outcome.passed THEN "True" ELSE "False">>)
    /\ UNCHANGED <<providers, csv, exit_status>>
    /\ UNCHANGED parserVars

\* "if not passed: ... sys.exit(1)".
ExitFailed ==
    /\ exit_status = <<>>
    /\ Len(calls) = 3
    /\ ~test_result.passed
    /\ exit_status' = <<1>>
    /\ UNCHANGED <<providers, test_result, calls, csv>>
    /\ UNCHANGED parserVars

\* A write_csv that does not wait for the tests to pass.
WriteCsvAnyway ==
    /\ exit_status = <<>>
    /\ Len(calls) = 3
    /\ csv' = write_csv(providers)
    /\ calls' = Append(calls, <<"write_csv", "returned">>)
    /\ exit_status' = <<0>>
    /\ UNCHANGED <<providers, test_result>>
    /\ UNCHANGED parserVars

\* "write_csv(providers, csv_path)" and the return of main.
WriteCsv ==
    /\ exit_status = <<>>
    /\ Len(calls) = 3
    /\ test_result.passed
    /\ csv' = write_csv(providers)
    /\ calls' = Append(calls, <<"write_csv", "returned">>)
    /\ exit_status' = <<0>>
    /\ UNCHANGED <<providers, test_result>>
    /\ UNCHANGED parserVars

NextMain == Download \/ ParseRoster \/ RunTestsOfMain \/ ExitFailed \/ WriteCsv

SpecMain == InitMain /\ [][NextMain]_vars

(***************************************************************************)
(* The blocks handed to parse_provider_block.                              *)
(***************************************************************************)
\* The lines of the page the k-th block of the last call was cut from.
PageOfBlock(k) == pdf[parsed[k].page]

\* C1: every block handed to parse_provider_block has between 1 and 10
\* lines, its first line is a record-start line, and none of its other lines
\* is a record-start line, a ZIP header, a total line or a noise line.
C1_BlockShape ==
    \A k \in DOMAIN parsed :
        LET b == parsed[k].lines
        IN  /\ Len(b) >= 1
            /\ Len(b) <= MaxBlockLines
            /\ is_provider_start_line(b[1])
            /\ \A j \in 2..Len(b) :
                    /\ ~is_provider_start_line(b[j])
                    /\ ~is_zip_header(b[j])
                    /\ ~LitAt(b[j], 1, TotalPrefix)
                    /\ ~IsSkipLine(b[j])

\* A block was cut by the cap: it has ten lines and the line after it on
\* the page would have continued it.
C1_Witness ==
    \E k \in DOMAIN parsed :
        /\ Len(parsed[k].lines) = MaxBlockLines
        /\ parsed[k].at + MaxBlockLines <= Len(PageOfBlock(k))
        /\ ~StopsBlock(PageOfBlock(k)[parsed[k].at + MaxBlockLines])

(***************************************************************************)
(* The ZIP context of the records.                                         *)
(***************************************************************************)
\* The lines the last call read before line `at` of page `page`, in order.
RECURSIVE LinesBefore(_, _)
LinesBefore(page, at) ==
    IF page < 2 THEN <<>>
    ELSE LinesBefore(page - 1, Len(pdf[page - 1]) + 1) \o SubSeq(pdf[page], 1, at - 1)

\* The ZIP headers among them.
HeadersBefore(page, at) == SelectSeq(LinesBefore(page, at), is_zip_header)

\* The blocks of the last call whose record has a name or a license number.
HasNameOrLicense(c) ==
    c.provider.Provider_Name # <<>> \/ c.provider.License_Number # <<>>

Emitted == SelectSeq(parsed, HasNameOrLicense)

\* C2: every emitted record carries the ZIP code and county of the last
\* ZIP header before its record-start line in the same call, headers of
\* earlier pages included and a header that closes its block excluded; with
\* a header seen, both fields are non-empty.
C2_ZipContext ==
    /\ Len(providers) = Len(Emitted)
    /\ \A k \in DOMAIN providers :
            LET h == HeadersBefore(Emitted[k].page, Emitted[k].at)
            IN  h # <<>> =>
                    /\ providers[k].Zip_Code = SubSeq(h[Len(h)], 1, 5)
                    /\ providers[k].County = Strip(SubSeq(h[Len(h)], 6, Len(h[Len(h)])))
                    /\ providers[k].Zip_Code # <<>>
                    /\ providers[k].County # <<>>

\* A record whose ZIP header stands on an earlier page than its block.
C2_Witness ==
    \E k \in DOMAIN providers :
        /\ k <= Len(Emitted)
        /\ HeadersBefore(Emitted[k].page, Emitted[k].at) # <<>>
        /\ HeadersBefore(Emitted[k].page, 1) = HeadersBefore(Emitted[k].page, Emitted[k].at)
        /\ providers[k].Zip_Code # <<>>

(***************************************************************************)
(* Calls of one process.                                                   *)
(***************************************************************************)
\* C3: two calls with the same pages and lines and the same download_date
\* return equal record sequences, whatever was parsed between them.
C3_Deterministic ==
    \A r1, r2 \in returned :
        (r1.pdf = r2.pdf /\ r1.download_date = r2.download_date)
            => r1.providers = r2.providers

\* The document was parsed again after a call that ended inside a ZIP
\* group, and its first record is in no ZIP group.
C3_Witness ==
    /\ pdf # OtherPdf
    /\ \E r \in returned : r.pdf = OtherPdf
    /\ providers # <<>>
    /\ providers[1].Zip_Code = <<>>

(***************************************************************************)
(* Record-start lines and page ends.                                       *)
(***************************************************************************)
\* C4: every line of a page after the first that has a license number and
\* 'Capacity:' opens a block, noise markers in it or not.
C4_StartLineOpensBlock ==
    \A p \in 2..Len(pdf) : \A j \in DOMAIN pdf[p] :
        is_provider_start_line(pdf[p][j])
            => \E k \in DOMAIN parsed : parsed[k].page = p /\ parsed[k].at = j

\* C5: a block open at the end of its page takes the continuation line at
\* the top of the next page.
C5_OpenBlockCrossesPages ==
    \A k \in DOMAIN parsed :
        LET c == parsed[k]
            page == pdf[c.page]
            n == Len(page) - c.at + 1
        IN  (/\ n < MaxBlockLines
             /\ \A j \in (c.at + 1)..Len(page) : ~StopsBlock(page[j])
             /\ c.page < Len(pdf)
             /\ pdf[c.page + 1] # <<>>
             /\ ~StopsBlock(pdf[c.page + 1][1]))
            => /\ Len(c.lines) > n
               /\ c.lines[n + 1] = pdf[c.page + 1][1]

(***************************************************************************)
(* The record of a block.                                                  *)
(***************************************************************************)
\* 'Sunny Days', '123 Main St', 'MTWTHF', 'CCC9578', '10'
SunnyDays == <<"S","u","n","n","y"," ","D","a","y","s">>
MainSt == <<"1","2","3"," ","M","a","i","n"," ","S","t">>
WeekDays == <<"M","T","W","T","H","F">>
SunnyLicense == <<"C","C","C","9","5","7","8">>
SunnyCapacity == <<"1","0">>

\* The fields of the one-line block 'Sunny Days CCC9578 123 Main St
\* Capacity: 10 MTWTHF' other than Days_Open.
SunnyFields(c) ==
    /\ is_provider_start_line(c.lines[1])
    /\ c.provider.Provider_Name = SunnyDays
    /\ c.provider.License_Number = SunnyLicense
    /\ c.provider.Capacity = SunnyCapacity
    /\ c.provider.Address = MainSt

\* C6 as stated: the one-line block 'Sunny Days CCC9578 123 Main St
\* Capacity: 10 MTWTHF' is a record start and gives Provider_Name 'Sunny
\* Days', License_Number 'CCC9578', Capacity '10', Address '123 Main St' and
\* Days_Open 'MTWTHF'.
C6_AsStated ==
    \A k \in DOMAIN parsed :
        parsed[k].lines = <<L_Sunny>>
            => SunnyFields(parsed[k]) /\ parsed[k].provider.Days_Open = WeekDays

\* C6 amended: the same block gives those fields and an empty Days_Open,
\* the line having no 'Days of Week Open:' before the day letters.
C6_SunnyDays ==
    \A k \in DOMAIN parsed :
        parsed[k].lines = <<L_Sunny>>
            => SunnyFields(parsed[k]) /\ parsed[k].provider.Days_Open = <<>>

\* The one-line block was parsed and its record returned.
C6_Witness ==
    \E k \in DOMAIN parsed :
        /\ parsed[k].lines = <<L_Sunny>>
        /\ \E j \in DOMAIN providers : providers[j] = parsed[k].provider

(***************************************************************************)
(* The fields of the returned records.                                     *)
(***************************************************************************)
\* C9: in every returned record a non-empty License_Number, Phone,
\* Effective_Date and Zip_Code match the pattern test_data_quality holds
\* them to.
C9_FieldPatterns ==
    \A r \in returned : \A k \in DOMAIN r.providers :
        LET rec == r.providers[k]
        IN  /\ rec.License_Number # <<>> => LICENSE_PATTERN(rec.License_Number)
            /\ rec.Phone # <<>> => PHONE_PATTERN(rec.Phone)
            /\ rec.Effective_Date # <<>> => DATE_PATTERN(rec.Effective_Date)
            /\ rec.Zip_Code # <<>> => ZIP_PATTERN(rec.Zip_Code)

\* A record with all four fields filled, its phone number written without
\* the space in the document.
C9_Witness ==
    \E k \in DOMAIN providers :
        /\ providers[k].License_Number # <<>>
        /\ providers[k].Phone # <<>>
        /\ providers[k].Effective_Date # <<>>
        /\ providers[k].Zip_Code # <<>>
        /\ k <= Len(Emitted)
        /\ \E j \in DOMAIN Emitted[k].lines :
                LitAt(Emitted[k].lines[j], 1, <<"(">>)
                    /\ ~PHONE_PATTERN(SubSeq(Emitted[k].lines[j], 1, 14))

(***************************************************************************)
(* Dropped blocks.                                                         *)
(***************************************************************************)
\* C10: the returned records are the records of the closed blocks, in
\* order, without exactly those whose Provider_Name and License_Number are
\* both empty; the blocks after such a block are parsed all the same.
C10_DroppedIffBothEmpty ==
    /\ Len(providers) = Len(Emitted)
    /\ \A k \in DOMAIN providers : providers[k] = Emitted[k].provider

\* A block was closed whose record has a license number and no name, and
\* the record was returned.
C10_Witness ==
    \E k \in DOMAIN parsed :
        /\ parsed[k].provider.Provider_Name = <<>>
        /\ parsed[k].provider.License_Number # <<>>
        /\ \E j \in DOMAIN providers : providers[j] = parsed[k].provider

(***************************************************************************)
(* The text functions.                                                     *)
(***************************************************************************)
\* C7: extract_facility_type returns the most specific facility type in
\* the line: when the line contains a type that contains another type, the
\* contained one is not what it returns.
C7_MostSpecific ==
    applied = "extract_facility_type" =>
        \A f, g \in DOMAIN FACILITY_TYPES :
            (/\ f # g
             /\ Contains(text, FACILITY_TYPES[f])
             /\ Contains(FACILITY_TYPES[f], FACILITY_TYPES[g]))
            => value # FACILITY_TYPES[g]

\* C8: clean_provider_name is idempotent: applied to its own result it
\* returns that result.
C8_Idempotent ==
    applied = "clean_provider_name twice" => value = clean_provider_name(text)

(***************************************************************************)
(* The results of the tests.                                               *)
(***************************************************************************)
TooFewError(result) ==
    \E e \in Range(result.errors) : e.msg = "Too few providers extracted"

\* C11: run_all_tests on a list of 5 records does not pass and reports the
\* too-few-providers error, whatever the records hold.
C11_FiveRecordsFail ==
    (applied = "run_all_tests" /\ Len(providers) = 5)
        => (~test_result.passed /\ TooFewError(test_result))

\* run_all_tests has run on 5 complete, well-formed records and the
\* too-few-providers error is its only one.
C11_Witness ==
    /\ applied = "run_all_tests"
    /\ Len(providers) = 5
    /\ \A j \in DOMAIN providers : providers[j] = GoodProvider
    /\ ~test_result.passed
    /\ Len(test_result.errors) = 1
    /\ TooFewError(test_result)

\* The original wording of C12: the error is reported exactly for the lists
\* of 100 or fewer records.
C12_AsStated ==
    applied \in {"test_data_quality", "run_all_tests"}
        => (TooFewError(test_result) <=> Len(providers) <= MIN_EXPECTED_PROVIDERS)

\* C12: the too-few-providers error is reported exactly for the lists of
\* fewer than 100 records; a list of 100 records or more does not get it.
C12_BelowFloor ==
    applied \in {"test_data_quality", "run_all_tests"}
        => (TooFewError(test_result) <=> Len(providers) < MIN_EXPECTED_PROVIDERS)

\* test_data_quality has run on exactly 100 records and has not reported the
\* too-few-providers error.
C12_Witness ==
    /\ applied = "test_data_quality"
    /\ Len(providers) = MIN_EXPECTED_PROVIDERS
    /\ ~TooFewError(test_result)
    /\ test_result.stats["total_providers"] = MIN_EXPECTED_PROVIDERS

Populated(field) == Cardinality({j \in DOMAIN providers : Has(providers[j], field)})

\* The populated fraction of the field is below 90%.
BelowThreshold(field) == 10 * Populated(field) < 9 * Len(providers)

\* More than 5% of the records lack the field.
ManyMissing(field) == 100 * (Len(providers) - Populated(field)) > 5 * Len(providers)

RateError(field) ==
    \E e \in Range(test_result.errors) : e.msg = "only populated in" /\ e.field = field

MissingError(field) ==
    \E e \in Range(test_result.errors) : e.msg = "missing" /\ e.field = field

\* The original wording of C13: run_all_tests reports an error about a key
\* field's completeness exactly when its populated fraction is below 90%.
C13_AsStated ==
    (applied = "run_all_tests" /\ providers # <<>>)
        => \A f \in Range(key_fields) :
               /\ (RateError(f) \/ MissingError(f)) <=> BelowThreshold(f)
               /\ f \o "_rate" \in DOMAIN test_result.stats

\* C13: run_all_tests records the rate of each key field as a stat and
\* reports the field's "only populated in" error exactly when its populated
\* fraction is below 90%; besides that it reports a "missing" error for
\* Provider_Name and for License_Number exactly when more than 5% of the
\* records lack the field, and for no other key field.
C13_Completeness ==
    (applied = "run_all_tests" /\ providers # <<>>)
        => \A f \in Range(key_fields) :
               /\ RateError(f) <=> BelowThreshold(f)
               /\ MissingError(f) <=> (f \in {"Provider_Name", "License_Number"} /\ ManyMissing(f))
               /\ f \o "_rate" \in DOMAIN test_result.stats

\* run_all_tests has run on 100 records of which 92 have a name: the name's
\* rate is at the threshold or above, and the missing-name error is reported.
C13_Witness ==
    /\ applied = "run_all_tests"
    /\ Len(providers) = MIN_EXPECTED_PROVIDERS
    /\ Populated("Provider_Name") = 92
    /\ ~RateError("Provider_Name")
    /\ MissingError("Provider_Name")
    /\ test_result.stats["Provider_Name_rate"] = 920

\* C14: a result of the three tests or of run_all_tests, also after further
\* add_error and add_warning calls, has passed exactly when it has no errors:
\* warnings and stats do not fail it, one error does.
C14_PassedIffNoErrors ==
    (applied # "none" /\ ~Raised(test_result))
        => (test_result.passed <=> test_result.errors = <<>>)

\* run_all_tests has passed a list while reporting warnings and stats.
C14_Witness ==
    /\ applied = "run_all_tests"
    /\ test_result.passed
    /\ test_result.errors = <<>>
    /\ test_result.warnings # <<>>
    /\ DOMAIN test_result.stats # {}

\* C15: each of the three functions returns a result for every record list,
\* the empty one included, and raises nothing (no division by zero); on the
\* empty list the result is a failure.
C15_ReturnsNeverRaises ==
    applied # "none"
        => /\ ~Raised(test_result)
           /\ providers = <<>> => ~test_result.passed

\* test_field_completeness has returned on the empty list, with an error for
\* each of the six key fields.
C15_Witness ==
    /\ applied = "test_field_completeness"
    /\ providers = <<>>
    /\ ~Raised(test_result)
    /\ ~test_result.passed
    /\ Len(test_result.errors) = Len(key_fields)

(***************************************************************************)
(* The pipeline of main.                                                   *)
(***************************************************************************)
CalledWriteCsv == \E c \in Range(calls) : c[1] = "write_csv"

\* C16: the CSV is written only after the download succeeded, the parse
\* returned and run_all_tests passed, in that order; when the download fails
\* or the tests fail, main exits with status 1 and write_csv is not called.
C16_CsvOnlyAfterPass ==
    /\ (csv # <<>> \/ CalledWriteCsv)
           => /\ calls = <<<<"download_pdf", "True">>,
                           <<"extract_providers_from_pdf", "returned">>,
                           <<"run_all_tests", "True">>,
                           <<"write_csv", "returned">>>>
              /\ test_result.passed
              /\ csv = write_csv(providers)
    /\ (calls # <<>> /\ calls[1] = <<"download_pdf", "False">>)
           => (exit_status = <<1>> /\ Len(calls) = 1 /\ csv = <<>>)
    /\ (Len(calls) >= 3 /\ calls[3] = <<"run_all_tests", "False">>)
           => (exit_status \in {<<>>, <<1>>} /\ Len(calls) = 3 /\ csv = <<>>)
    /\ (exit_status = <<0>>) => CalledWriteCsv

\* main has written the CSV of a list that passed, and returned.
C16_Witness ==
    /\ exit_status = <<0>>
    /\ CalledWriteCsv
    /\ Len(csv) = Len(providers) + 1
    /\ Len(providers) >= MIN_EXPECTED_PROVIDERS

(***************************************************************************)
(* The name and the flags of a block.                                      *)
(***************************************************************************)
\* The text before the license number on line 1, stripped.
NameCandidate == Strip(SplitBefore(text[1], value.License_Number))

\* The places of an 'owned by' in any letter case that has whitespace before
\* it and whitespace and further text after it.
Boundaries(t) ==
    {b \in 2..Len(t) : /\ LitAtCI(t, b, OwnedByLit)
                       /\ t[b - 1] \in Space
                       /\ b + Len(OwnedByLit) < Len(t)
                       /\ t[b + Len(OwnedByLit)] \in Space}

BeforeFirstBoundary(t) == Strip(Slice(t, 1, Min(Boundaries(t)) - 1))

\* The original wording of C17: with an 'owned by' boundary in the name
\* candidate, Provider_Name is the text before the first boundary.
C17_AsStated ==
    (applied = "parse_provider_block" /\ value.License_Number # <<>>
        /\ Boundaries(NameCandidate) # {})
        => value.Provider_Name = BeforeFirstBoundary(NameCandidate)

\* C17: with an 'owned by' boundary (any letter case, further text behind it)
\* in the text before the license number on line 1, Provider_Name is the text
\* before the first boundary without a trailing 'owned by', 'owned' or 'ob';
\* it is that text itself when it has none of these at its end, as in
\* 'Bright Start owned by Jane Doe', which gives 'Bright Start'.
C17_BeforeFirstBoundary ==
    (applied = "parse_provider_block" /\ value.License_Number # <<>>
        /\ Boundaries(NameCandidate) # {})
        => LET before == BeforeFirstBoundary(NameCandidate)
               ends(lit) == /\ Len(before) > Len(lit)
                            /\ LitAtCI(before, Len(before) - Len(lit) + 1, lit)
                            /\ before[Len(before) - Len(lit)] \in Space
           IN  /\ value.Provider_Name = clean_provider_name(before)
               /\ (~ends(OwnedByLit) /\ ~ends(OwnedLit) /\ ~ends(ObLit))
                      => value.Provider_Name = before
               /\ NameCandidate = W_Bright \o <<" ">> \o OwnedByLit \o <<" ">> \o W_Jane
                      => value.Provider_Name = W_Bright

\* The block 'Bright Start owned by Jane Doe CCC1 ...' has been parsed.
C17_Witness ==
    /\ applied = "parse_provider_block"
    /\ NameCandidate = W_Bright \o <<" ">> \o OwnedByLit \o <<" ">> \o W_Jane
    /\ value.Provider_Name = W_Bright
    /\ value.License_Number = <<"C","C","C","1">>

\* Somewhere in the line the question is followed, after optional whitespace,
\* by one of the answers.
Answered(line, question, answers) ==
    \E k \in 1..Len(line) :
        /\ LitAt(line, k, question)
        /\ LET a == RunEnd(line, k + Len(question), Space)
           IN  a <= Len(line) /\ line[a] \in answers

FlagFields ==
    {<<"Currently_Accepts_Subsidy", CurrentlyLit, YN>>,
     <<"Willing_To_Accept_Subsidy", WillingLit, YN>>,
     <<"Does_Not_Accept_Subsidy", DoesNotLit, YN>>,
     <<"Step_Up_Quality", StepUpLit, Digit>>,
     <<"Accredited", AccreditedLit, YN>>}

Unanswered(f) == \A i \in DOMAIN text : ~Answered(text[i], f[2], f[3])

\* C18: a flag or rating whose question no line of the block answers (Y or N
\* behind the question, digits behind 'Step Up To Quality:') is the empty
\* string, and the record is returned with its other fields.
C18_UnansweredIsEmpty ==
    applied = "parse_provider_block"
        => /\ \A f \in FlagFields : Unanswered(f) => value[f[1]] = <<>>
           /\ DOMAIN value = Range(fieldnames)
           /\ text[1] = L_Bright
                  => /\ value.Provider_Name = W_Bright
                     /\ value.License_Number = <<"C","C","C","1">>
                     /\ value.Address = <<"4"," ","O","a","k"," ","S","t">>
                     /\ value.Capacity = <<"8">>

\* A block that prints 'Accredited?' without an answer and answers another
\* question has been parsed.
C18_Witness ==
    /\ applied = "parse_provider_block"
    /\ \E i \in DOMAIN text : Contains(text[i], AccreditedLit)
    /\ Unanswered(<<"Accredited", AccreditedLit, YN>>)
    /\ value.Accredited = <<>>
    /\ value.Currently_Accepts_Subsidy = <<"Y">>
    /\ value.Provider_Name = W_Bright

(***************************************************************************)
(* The schema of the returned records.                                     *)
(***************************************************************************)
\* C19: every returned record has exactly the 21 fields of the schema, each
\* a string; State is 'NE' and Download_Date is the date the caller gave.
C19_Schema ==
    \A k \in DOMAIN providers :
        /\ DOMAIN providers[k] = Range(fieldnames)
        /\ Cardinality(DOMAIN providers[k]) = 21
        /\ \A f \in DOMAIN providers[k] \ {"Download_Date"} : providers[k][f] \in Seq(STRING)
        /\ providers[k].Download_Date \in STRING
        /\ providers[k].State = StateNE
        /\ providers[k].Download_Date = download_date

\* A call with the date '2024-05-01' has returned two records or more.
C19_Witness ==
    /\ Len(providers) >= 2
    /\ download_date = "2024-05-01"
    /\ \A k \in DOMAIN providers :
           providers[k].Download_Date = "2024-05-01" /\ providers[k].State = StateNE
    /\ \E k \in DOMAIN providers : providers[k].Provider_Name # <<>>

(***************************************************************************)
(* The cap of a block.                                                     *)
(***************************************************************************)
\* The index after the run of continuation lines that starts at line e of
\* the page (e itself when line e is none).
RunAfter(page, e) ==
    CHOOSE j \in e..(Len(page) + 1) :
        /\ j = Len(page) + 1 \/ DispatchOf[page[j]] # "other"
        /\ \A i \in e..(j - 1) : DispatchOf[page[i]] = "other"

\* The document without the lines from..to of page page_num.
WithoutLines(doc, page_num, from, to) ==
    [doc EXCEPT ![page_num] = SubSeq(@, 1, from - 1) \o SubSeq(@, to + 1, Len(@))]

\* Block k was closed by the cap and continuation lines follow it.
CutByCap(k) ==
    /\ Len(parsed[k].lines) = MaxBlockLines
    /\ parsed[k].at + MaxBlockLines <= Len(PageOfBlock(k))
    /\ DispatchOf[PageOfBlock(k)[parsed[k].at + MaxBlockLines]] = "other"

\* C20: a block is closed when it holds 10 lines.  The continuation lines
\* that follow a block closed by the cap are in no block and change no
\* record (the call returns what it returns for the document without them),
\* and a record-start line behind them opens the next block.
C20_CapClosesBlock ==
    \A k \in DOMAIN parsed :
        LET page == PageOfBlock(k)
            at == parsed[k].at
            e == at + MaxBlockLines
            j == RunAfter(page, e)
        IN  /\ Len(parsed[k].lines) = Min({MaxBlockLines, RunAfter(page, at + 1) - at})
            /\ CutByCap(k) =>
                /\ parsed[k].lines = SubSeq(page, at, e - 1)
                /\ \A m \in DOMAIN parsed :
                       parsed[m].page = parsed[k].page
                           => \/ parsed[m].at + Len(parsed[m].lines) <= e
                              \/ parsed[m].at >= j
                /\ (j <= Len(page) /\ DispatchOf[page[j]] = "start")
                       => \E m \in DOMAIN parsed :
                              parsed[m].page = parsed[k].page /\ parsed[m].at = j
                /\ providers =
                       extract_providers_from_pdf(
                           WithoutLines(pdf, parsed[k].page, e, j - 1), download_date).providers

\* A block was closed by the cap, a continuation line behind it was dropped
\* and the record-start line after that opened the next block.
C20_Witness ==
    \E k \in DOMAIN parsed :
        /\ CutByCap(k)
        /\ k < Len(parsed)
        /\ parsed[k + 1].page = parsed[k].page
        /\ parsed[k + 1].at = RunAfter(PageOfBlock(k), parsed[k].at + MaxBlockLines)
        /\ parsed[k + 1].at > parsed[k].at + MaxBlockLines

(***************************************************************************)
(* The fields found by a scan of the block, and those of lines 1 and 2.    *)
(***************************************************************************)
\* The lines of the block on which the extractor yields a value.
Yielding(F(_)) == {i \in DOMAIN text : F(text[i]) # <<>>}

\* What the extractor yields on the first such line, '' when there is none.
FirstYield(F(_)) == IF Yielding(F) = {} THEN <<>> ELSE F(text[Min(Yielding(F))])

\* C21: City, Hours, Effective_Date, Phone, the three subsidy flags,
\* Step_Up_Quality and Accredited each hold what the field's extractor yields
\* on the first line of the block on which it yields a value, and Owner_Name
\* is the text before the date on the line Effective_Date was found on.
C21_FirstMatch ==
    applied = "parse_provider_block"
        => /\ value.City = FirstYield(extract_city)
           /\ value.Hours = FirstYield(extract_hours)
           /\ value.Effective_Date = FirstYield(extract_effective_date)
           /\ value.Phone = FirstYield(extract_phone)
           /\ value.Currently_Accepts_Subsidy = FirstYield(ExtractCurrently)
           /\ value.Willing_To_Accept_Subsidy = FirstYield(ExtractWilling)
           /\ value.Does_Not_Accept_Subsidy = FirstYield(ExtractDoesNot)
           /\ value.Step_Up_Quality = FirstYield(extract_step_up_quality)
           /\ value.Accredited = FirstYield(extract_accredited)
           /\ value.Owner_Name =
                  IF Yielding(extract_effective_date) = {} THEN <<>>
                  ELSE OwnerMatch(text[Min(Yielding(extract_effective_date))],
                                  value.Effective_Date)
           /\ (Len(text) >= 2 /\ text[2] = L_JaneDate)
                  => (value.Effective_Date = <<"0","4","/","3","0","/","2","0","2","4">>
                      /\ value.Owner_Name = W_Jane)
           /\ (Len(text) >= 2 /\ text[2] = L_BareDate) => value.Owner_Name = <<>>

\* A block with the date of Jane Doe on line 2 and that of John Roe on line
\* 3 has been parsed.
C21_Witness ==
    /\ applied = "parse_provider_block"
    /\ text = <<L_Bright, L_JaneDate, L_JohnDate>>
    /\ value.Effective_Date = <<"0","4","/","3","0","/","2","0","2","4">>
    /\ value.Owner_Name = W_Jane

\* Some facility type, or 'Ages:', occurs in the line.
HoldsTypeOrAges(line) ==
    \/ \E t \in DOMAIN FACILITY_TYPES : Contains(line, FACILITY_TYPES[t])
    \/ Contains(line, AgesLit)

\* C22: License_Type and Ages are what the second line of the block yields,
\* both empty when the block has one line or when line 2 holds neither a
\* facility type nor 'Ages:', whatever the later lines hold; License_Number,
\* Capacity, Days_Open, Provider_Name and Address are those of line 1, here
\* 'Bright Start CCC1 4 Oak St Capacity: 8', whatever the other lines hold.
C22_LineTwoOnly ==
    applied = "parse_provider_block"
        => /\ value.License_Type =
                  (IF Len(text) >= 2 THEN extract_facility_type(text[2]) ELSE <<>>)
           /\ value.Ages = (IF Len(text) >= 2 THEN extract_ages(text[2]) ELSE <<>>)
           /\ (Len(text) = 1 \/ ~HoldsTypeOrAges(text[2]))
                  => (value.License_Type = <<>> /\ value.Ages = <<>>)
           /\ value.License_Number = extract_license_number(text[1])
           /\ value.Capacity = extract_capacity(text[1])
           /\ value.Days_Open = extract_days(text[1])
           /\ text[1] = L_Bright
                  => /\ value.License_Number = <<"C","C","C","1">>
                     /\ value.Capacity = <<"8">>
                     /\ value.Days_Open = <<>>
                     /\ value.Provider_Name = W_Bright
                     /\ value.Address = <<"4"," ","O","a","k"," ","S","t">>

\* A block whose second line is a phone number and whose third line is
\* 'Preschool' has been parsed: the record has no License_Type.
C22_Witness ==
    /\ applied = "parse_provider_block"
    /\ text = <<L_Bright, L_Phone1, L_Preschool>>
    /\ value.License_Type = <<>>
    /\ value.Ages = <<>>

\* A block whose second line holds another capacity with days, and one
\* whose second line holds another license number, have been parsed.
C22_WitnessLineOne ==
    /\ applied = "parse_provider_block"
    /\ Len(text) >= 2
    /\ text[2] \in {L_CapDays, L_Annex}
    /\ value.Capacity = <<"8">>

(***************************************************************************)
(* The record-start lines and the records.                                 *)
(***************************************************************************)
\* The places of the lines of the document from page `page` on, in order.
RECURSIVE PlacesFrom(_)
PlacesFrom(page) ==
    IF page > Len(pdf) THEN <<>>
    ELSE [i \in 1..Len(pdf[page]) |-> [page |-> page, at |-> i]] \o PlacesFrom(page + 1)

\* The lines that have a license number and 'Capacity:' and are no noise
\* line and no total line.
RecordStartLines ==
    {line \in Vocab : /\ is_provider_start_line(line)
                      /\ ~IsSkipLine(line)
                      /\ ~LitAt(line, 1, TotalPrefix)}

IsRecordStart(place) == pdf[place.page][place.at] \in RecordStartLines

RecordStarts == SelectSeq(PlacesFrom(2), IsRecordStart)

\* C23: the blocks of a call and its records are, one for one and in order,
\* the record-start lines after the first page that are no noise line and no
\* total line; the record of each has the license number of its line, which
\* is not empty.
C23_OneRecordPerStartLine ==
    /\ Len(parsed) = Len(RecordStarts)
    /\ Len(providers) = Len(RecordStarts)
    /\ \A k \in DOMAIN RecordStarts :
            LET line == pdf[RecordStarts[k].page][RecordStarts[k].at]
            IN  /\ parsed[k].page = RecordStarts[k].page
                /\ parsed[k].at = RecordStarts[k].at
                /\ parsed[k].lines[1] = line
                /\ providers[k] = parsed[k].provider
                /\ providers[k].License_Number = extract_license_number(line)
                /\ providers[k].License_Number # <<>>

\* A record-start line came while a block of two lines or more was open,
\* and both have their record.
C23_Witness ==
    \E k \in DOMAIN parsed :
        /\ k + 1 \in DOMAIN parsed
        /\ Len(parsed[k].lines) >= 2
        /\ parsed[k + 1].page = parsed[k].page
        /\ parsed[k + 1].at = parsed[k].at + Len(parsed[k].lines)
        /\ Len(providers) = Len(parsed)
        /\ providers[k + 1].License_Number # <<>>

(***************************************************************************)
(* The first page and the pages without text.                              *)
(***************************************************************************)
HasText(page) == page # <<>>

\* The document with another first page, and without its later pages that
\* have no text.
WithFirstPage(first) == <<first>> \o Tail(pdf)
WithoutEmptyPages == <<pdf[1]>> \o SelectSeq(Tail(pdf), HasText)

\* C24: no block is cut from the first page, a record with no ZIP header
\* before it on the pages after the first has no ZIP code and no county
\* whatever the first page holds, and the call returns the same records for
\* the document with any other first page and for the document without its
\* later pages that have no text; with no ZIP header after the first page
\* the context is empty at the end of the call.
C24_FirstPageIgnored ==
    pdf # <<>> =>
        /\ \A k \in DOMAIN parsed : parsed[k].page >= 2
        /\ \A k \in DOMAIN parsed :
                HeadersBefore(parsed[k].page, parsed[k].at) = <<>>
                    => /\ parsed[k].provider.Zip_Code = <<>>
                       /\ parsed[k].provider.County = <<>>
        /\ HeadersBefore(Len(pdf), Len(pdf[Len(pdf)]) + 1) = <<>>
                => (current_zip = <<>> /\ current_county = <<>>)
        /\ \A first \in FirstPages \ {pdf[1]} :
                providers = extract_providers_from_pdf(WithFirstPage(first),
                                                       download_date).providers
        /\ WithoutEmptyPages # pdf
                => providers = extract_providers_from_pdf(WithoutEmptyPages,
                                                         download_date).providers

\* A document whose first page holds a ZIP header and a record-start line
\* has been parsed; it has a page without text between a ZIP header and a
\* record, and the record has the ZIP code of that header.
C24_Witness ==
    /\ pdf # <<>>
    /\ pdf[1] = <<L_ZipB, L_Sunny>>
    /\ Len(providers) = Len(parsed)
    /\ \E k \in DOMAIN parsed :
        \E p \in 2..(parsed[k].page - 1) :
            /\ pdf[p] = <<>>
            /\ HeadersBefore(p, 1) # <<>>
            /\ HeadersBefore(parsed[k].page, parsed[k].at) = HeadersBefore(p, 1)
            /\ providers[k].Zip_Code = ZipGroup(L_ZipA)
            /\ providers[k].Zip_Code # ZipGroup(L_ZipB)

(***************************************************************************)
(* The formats test_data_quality checks.                                   *)
(***************************************************************************)
\* The number of records whose field is not empty and not of its pattern.
NonConforming(field, Pattern(_)) ==
    Cardinality({j \in DOMAIN providers :
                    providers[j][field] # <<>> /\ ~Pattern(providers[j][field])})

FormatError(msg) == \E e \in Range(test_result.errors) : e.msg = msg
FormatWarning(msg) == \E w \in Range(test_result.warnings) : w.msg = msg

\* The records are well-formed and complete but for the phone numbers of
\* some.
OnlyPhonesOff ==
    \A j \in DOMAIN providers : [providers[j] EXCEPT !.Phone = GoodProvider.Phone] = GoodProvider

\* C25: after test_data_quality, a record whose License_Number,
\* Effective_Date or Zip_Code is not empty and not of its pattern has its
\* error and has failed the result; records whose Phone is not empty and not
\* of its pattern have an error when they are more than 10% of the records
\* and a warning and no error otherwise, and a list of 100 records or more
\* that are otherwise complete and well-formed passes with them.
C25_PhonesTolerated ==
    applied = "test_data_quality"
        => /\ NonConforming("License_Number", LICENSE_PATTERN) > 0
                  => (FormatError("invalid license numbers") /\ ~test_result.passed)
           /\ NonConforming("Effective_Date", DATE_PATTERN) > 0
                  => (FormatError("invalid date formats") /\ ~test_result.passed)
           /\ NonConforming("Zip_Code", ZIP_PATTERN) > 0
                  => (FormatError("invalid ZIP codes") /\ ~test_result.passed)
           /\ LET off == NonConforming("Phone", PHONE_PATTERN)
              IN  /\ 100 * off > 10 * Len(providers)
                        => (FormatError("invalid phone formats") /\ ~test_result.passed)
                  /\ (off > 0 /\ 100 * off <= 10 * Len(providers))
                        => /\ FormatWarning("invalid phone formats")
                           /\ ~FormatError("invalid phone formats")
                  /\ off = 0 => (~FormatWarning("invalid phone formats")
                                 /\ ~FormatError("invalid phone formats"))
                  /\ (/\ off > 0
                      /\ 100 * off <= 10 * Len(providers)
                      /\ Len(providers) >= MIN_EXPECTED_PROVIDERS
                      /\ OnlyPhonesOff
                      /\ ~FormatError("added"))
                        => test_result.passed

\* test_data_quality has passed 100 records of which 10 have the phone
\* number '(402)5551234', with a warning about them.
C25_Witness ==
    /\ applied = "test_data_quality"
    /\ Len(providers) = 100
    /\ NonConforming("Phone", PHONE_PATTERN) = 10
    /\ test_result.passed
    /\ test_result.errors = <<>>
    /\ FormatWarning("invalid phone formats")

====
